---- MODULE Spec2Model ----
(***************************************************************************)
(* Valuation and projection engine of the stock-grant tracker              *)
(* (services/calculation.ts, utils/date.ts).                               *)
(*                                                                         *)
(* Dates are ISO strings YYYY-MM-DD in the source; here a date is the      *)
(* triple <<y, m, d>> and the string comparisons of the source are the     *)
(* lexicographic comparisons of the triples.  JavaScript numbers are       *)
(* modelled as exact rationals [n, d] extended with the three special      *)
(* values the source can produce by dividing by zero (d = 0: n = 1 is      *)
(* Infinity, n = -1 is -Infinity, n = 0 is NaN); floating-point rounding   *)
(* error is not modelled.                                                  *)
(***************************************************************************)
EXTENDS Integers, Sequences, FiniteSets, TLC

VARIABLES
    portfolio,                    \* the Portfolio the engine is called with
    pc,                           \* "idle", "loop" (inside projectFutureValue) or "done"
    call,                         \* the function called and its arguments
    ret,                          \* the value the call returned
    year,                         \* projectFutureValue: the loop variable
    cumulativePlannedSaleShares,  \* projectFutureValue: the running total
    projections,                  \* projectFutureValue: the years pushed so far
    localStorage,                 \* the item under the storage provider's key
    provider                      \* PortfolioProvider: its state besides the portfolio

vars ==
    <<portfolio, pc, call, ret, year, cumulativePlannedSaleShares, projections,
      localStorage, provider>>

----------------------------------------------------------------------------
(* Bounds of the model *)

\* the calendar years of the model are FirstYear .. FirstYear + YearSpan
YearSpan == 2

\* the longest loan list drawn
MaxLoans == 2

\* the longest stock price list drawn
MaxPrices == 2

\* the most share exchanges and stock sales, taken together, drawn for a grant
MaxDeductions == 2

\* the first calendar year of the model
MaxTranches == 2

FirstYear == 2023

Years == FirstYear .. (FirstYear + YearSpan)

\* the days of a year the model uses: Jan 1, Jul 1 and Dec 31
MonthDays == {<<1, 1>>, <<7, 1>>, <<12, 31>>}

Dates == {<<y, md[1], md[2]>> : y \in Years, md \in MonthDays}

----------------------------------------------------------------------------
(* Numbers *)

Abs(x) == IF x < 0 THEN -x ELSE x

Sign(x) == IF x < 0 THEN -1 ELSE IF x > 0 THEN 1 ELSE 0

Max(a, b) == IF a >= b THEN a ELSE b

RECURSIVE Gcd(_, _)
Gcd(a, b) == IF b = 0 THEN a ELSE Gcd(b, a % b)

\* the canonical form of the fraction n/d (d = 0 gives Infinity, -Infinity or NaN)
Norm(n, d) ==
    IF d = 0 THEN [n |-> Sign(n), d |-> 0]
    ELSE LET s == IF d < 0 THEN -1 ELSE 1
             g == Gcd(Abs(n), Abs(d))
         IN  [n |-> (s * n) \div g, d |-> (s * d) \div g]

R(i) == [n |-> i, d |-> 1]

NaN == [n |-> 0, d |-> 0]

Infinity == [n |-> 1, d |-> 0]

IsNaN(a) == a.d = 0 /\ a.n = 0

IsFinite(a) == a.d # 0

\* a * b of JavaScript: 0 * Infinity is NaN
Mul(a, b) == Norm(a.n * b.n, a.d * b.d)

\* a / b of JavaScript: x / 0 is Infinity, -Infinity or NaN by the sign of x
Div(a, b) ==
    IF IsNaN(a) \/ IsNaN(b) THEN NaN
    ELSE IF b.n < 0 THEN Norm(-(a.n * b.d), a.d * (-b.n))
    ELSE Norm(a.n * b.d, a.d * b.n)

\* a + b of JavaScript: Infinity + (-Infinity) is NaN
Add(a, b) ==
    IF IsNaN(a) \/ IsNaN(b) THEN NaN
    ELSE IF a.d = 0 /\ b.d = 0 THEN (IF a.n = b.n THEN a ELSE NaN)
    ELSE IF a.d = 0 THEN a
    ELSE IF b.d = 0 THEN b
    ELSE LET g == Gcd(a.d, b.d)
         IN  Norm(a.n * (b.d \div g) + b.n * (a.d \div g), a.d * (b.d \div g))

Neg(a) == [n |-> -a.n, d |-> a.d]

Sub(a, b) == Add(a, Neg(b))

\* a < b, a <= b of JavaScript: every comparison with NaN is false
Lt(a, b) ==
    /\ ~IsNaN(a)
    /\ ~IsNaN(b)
    /\ IF a.d = 0 /\ b.d = 0 THEN a.n < b.n
       ELSE IF a.d = 0 THEN a.n < 0
       ELSE IF b.d = 0 THEN b.n > 0
       ELSE a.n * b.d < b.n * a.d

Le(a, b) == ~IsNaN(a) /\ ~IsNaN(b) /\ (a = b \/ Lt(a, b))

\* Math.max(a, b): NaN if either argument is NaN
MathMax(a, b) == IF IsNaN(a) \/ IsNaN(b) THEN NaN ELSE IF Lt(a, b) THEN b ELSE a

\* floor of n/d for d > 0 (\div of TLA+ rounds toward minus infinity)
Floor(a) == a.n \div a.d

\* Math.ceil: the special values are returned unchanged
MathCeil(a) == IF a.d = 0 THEN a ELSE R(-((-a.n) \div a.d))

\* Math.round: floor(x + 1/2); the special values are returned unchanged
MathRound(a) == IF a.d = 0 THEN a ELSE R((2 * a.n + a.d) \div (2 * a.d))

\* Math.pow(b, k) for an integer k; a negative k divides 1 by the power
RECURSIVE PowNat(_, _)
PowNat(b, k) == IF k = 0 THEN R(1) ELSE Mul(b, PowNat(b, k - 1))

MathPow(b, k) == IF k >= 0 THEN PowNat(b, k) ELSE Div(R(1), PowNat(b, -k))

----------------------------------------------------------------------------
(* utils/date.ts *)

isLeapYear(y) == (y % 4 = 0 /\ y % 100 # 0) \/ y % 400 = 0

daysInYear(y) == IF isLeapYear(y) THEN 366 ELSE 365

DaysInMonth(y, m) ==
    IF m = 2 THEN (IF isLeapYear(y) THEN 29 ELSE 28)
    ELSE IF m \in {4, 6, 9, 11} THEN 30 ELSE 31

RECURSIVE DaysBeforeMonth(_, _)
DaysBeforeMonth(y, m) ==
    IF m = 1 THEN 0 ELSE DaysBeforeMonth(y, m - 1) + DaysInMonth(y, m - 1)

\* Date.UTC(y, m - 1, d) in days: the days from 0001-01-01 to the date
parseDate(date) ==
    LET y == date[1]
    IN  365 * (y - 1) + ((y - 1) \div 4) - ((y - 1) \div 100) + ((y - 1) \div 400)
          + DaysBeforeMonth(y, date[2]) + (date[3] - 1)

daysBetween(date1, date2) == parseDate(date2) - parseDate(date1)

\* date1 < date2 on the ISO strings
isBefore(date1, date2) ==
    \/ date1[1] < date2[1]
    \/ date1[1] = date2[1] /\ date1[2] < date2[2]
    \/ date1[1] = date2[1] /\ date1[2] = date2[2] /\ date1[3] < date2[3]

isOnOrBefore(date1, date2) == date1 = date2 \/ isBefore(date1, date2)

getYear(date) == date[1]

startOfYear(y) == <<y, 1, 1>>

endOfYear(y) == <<y, 12, 31>>

----------------------------------------------------------------------------
(* Array helpers *)

\* xs.reduce((s, x) => s + x, 0) over integers
RECURSIVE SumInt(_)
SumInt(xs) == IF xs = <<>> THEN 0 ELSE Head(xs) + SumInt(Tail(xs))

\* xs.reduce((s, x) => s + x, acc) over numbers, added left to right
RECURSIVE SumNumFrom(_, _)
SumNumFrom(acc, xs) ==
    IF xs = <<>> THEN acc ELSE SumNumFrom(Add(acc, Head(xs)), Tail(xs))

SumNum(xs) == SumNumFrom(R(0), xs)

\* xs.map(f)
Map(xs, f(_)) == [i \in 1..Len(xs) |-> f(xs[i])]

\* the comparators on .date of the source: with descending
\* (a, b) => a.date > b.date ? -1 : a.date < b.date ? 1 : 0, else
\* (a, b) => a.date < b.date ? -1 : a.date > b.date ? 1 : 0
DateComesFirst(a, b, descending) ==
    IF descending THEN isBefore(b.date, a.date) ELSE isBefore(a.date, b.date)

\* x inserted into the sorted xs before the first element it must precede
RECURSIVE InsertByDate(_, _, _)
InsertByDate(x, xs, descending) ==
    IF xs = <<>> THEN <<x>>
    ELSE IF DateComesFirst(x, Head(xs), descending) THEN <<x>> \o xs
    ELSE <<Head(xs)>> \o InsertByDate(x, Tail(xs), descending)

RECURSIVE SortByDateFrom(_, _, _)
SortByDateFrom(done, xs, descending) ==
    IF xs = <<>> THEN done
    ELSE SortByDateFrom(InsertByDate(Head(xs), done, descending), Tail(xs), descending)

\* Array.prototype.sort with a comparator on .date: a stable sort, entries of
\* the same date keep their order
SortByDate(xs, descending) == SortByDateFrom(<<>>, xs, descending)

----------------------------------------------------------------------------
(* services/calculation.ts: stock price lookup *)

\* null of the source
null == [null |-> TRUE]

\* getStockPriceOnDate that sorts the entries on or before the date ascending
getStockPriceOnDate_SortAscending(prices, date) ==
    LET sorted == SortByDate(SelectSeq(prices, LAMBDA p : isOnOrBefore(p.date, date)),
                             FALSE)
    IN  IF Len(sorted) > 0 THEN sorted[1].pricePerShare ELSE null

getStockPriceOnDate(prices, date) ==
    LET sorted == SortByDate(SelectSeq(prices, LAMBDA p : isOnOrBefore(p.date, date)),
                             TRUE)
    IN  IF Len(sorted) > 0 THEN sorted[1].pricePerShare ELSE null

getLatestStockPrice(prices) ==
    IF Len(prices) = 0 THEN null
    ELSE SortByDate(prices, TRUE)[1].pricePerShare

----------------------------------------------------------------------------
(* services/calculation.ts: vesting and share deductions *)

\* getVestedTranches where a tranche vests the day after its vestDate
getVestedTranches_AfterVestDate(grant, asOfDate) ==
    SelectSeq(grant.vestingSchedule, LAMBDA t : isBefore(t.vestDate, asOfDate))

getVestedTranches(grant, asOfDate) ==
    SelectSeq(grant.vestingSchedule, LAMBDA t : isOnOrBefore(t.vestDate, asOfDate))

\* getVestedTranches(grant, asOfDate).reduce((s, t) => s + t.numberOfShares, 0)
VestedShares(grant, asOfDate) ==
    SumInt(Map(getVestedTranches(grant, asOfDate), LAMBDA t : t.numberOfShares))

getTotalVestedShares(grants, asOfDate) ==
    SumInt(Map(grants, LAMBDA g : VestedShares(g, asOfDate)))

getExchangedShares(exchanges, grantId, asOfDate) ==
    SumInt(Map(SelectSeq(exchanges, LAMBDA e :
                   e.sourceGrantId = grantId /\ isOnOrBefore(e.date, asOfDate)),
               LAMBDA e : e.sharesExchanged))

getSoldShares(sales, grantId, asOfDate) ==
    SumInt(Map(SelectSeq(sales, LAMBDA s :
                   s.sourceGrantId = grantId /\ isOnOrBefore(s.date, asOfDate)),
               LAMBDA s : s.sharesSold))

\* getHeldShares without the floor at zero
getHeldShares_NoFloor(grant, exchanges, sales, asOfDate) ==
    VestedShares(grant, asOfDate)
        - getExchangedShares(exchanges, grant.id, asOfDate)
        - getSoldShares(sales, grant.id, asOfDate)

getHeldShares(grant, exchanges, sales, asOfDate) ==
    LET vested == VestedShares(grant, asOfDate)
        exchanged == getExchangedShares(exchanges, grant.id, asOfDate)
        sold == getSoldShares(sales, grant.id, asOfDate)
    IN  Max(0, vested - exchanged - sold)

----------------------------------------------------------------------------
(* services/calculation.ts: loans *)

\* getActiveLoans with the maturity date excluded from the window
getActiveLoans_ExclusiveMaturity(loans, asOfDate) ==
    SelectSeq(loans, LAMBDA l :
        /\ l.status = "active"
        /\ isOnOrBefore(l.originationDate, asOfDate)
        /\ isBefore(asOfDate, l.maturityDate))

getActiveLoans(loans, asOfDate) ==
    SelectSeq(loans, LAMBDA l :
        /\ l.status = "active"
        /\ isOnOrBefore(l.originationDate, asOfDate)
        /\ ~isBefore(l.maturityDate, asOfDate))

\* calculateAccruedInterest that accrues from the origination date in every year
calculateAccruedInterest_FromOrigination(loan, asOfDate) ==
    LET accrualStart == loan.originationDate
    IN  IF isOnOrBefore(asOfDate, accrualStart) THEN R(0)
        ELSE Mul(Mul(R(loan.principalAmount), loan.annualInterestRate),
                 Div(R(daysBetween(accrualStart, asOfDate)),
                     R(daysInYear(getYear(asOfDate)))))

calculateAccruedInterest(loan, asOfDate) ==
    LET y == getYear(asOfDate)
        yearStart == startOfYear(y)
        accrualStart == IF isBefore(yearStart, loan.originationDate)
                        THEN loan.originationDate ELSE yearStart
    IN  IF isOnOrBefore(asOfDate, accrualStart) THEN R(0)
        ELSE LET days == daysBetween(accrualStart, asOfDate)
                 yearDays == daysInYear(y)
             IN  Mul(Mul(R(loan.principalAmount), loan.annualInterestRate),
                     Div(R(days), R(yearDays)))

\* calculateInterestForYear that does not clip the loan to its maturity date
calculateInterestForYear_NoMaturityClip(loan, y) ==
    LET yearStart == startOfYear(y)
        yearEnd == <<y, 12, 31>>
    IN  IF loan.status # "active" THEN R(0)
        ELSE IF isBefore(yearEnd, loan.originationDate) THEN R(0)
        ELSE IF isBefore(loan.maturityDate, yearStart) THEN R(0)
        ELSE LET effectiveStart == IF isBefore(yearStart, loan.originationDate)
                                   THEN loan.originationDate ELSE yearStart
             IN  Mul(Mul(R(loan.principalAmount), loan.annualInterestRate),
                     Div(R(daysBetween(effectiveStart, yearEnd)), R(daysInYear(y))))

calculateInterestForYear(loan, y) ==
    LET yearStart == startOfYear(y)
        yearEnd == <<y, 12, 31>>
    IN  IF loan.status # "active" THEN R(0)
        ELSE IF isBefore(yearEnd, loan.originationDate) THEN R(0)
        ELSE IF isBefore(loan.maturityDate, yearStart) THEN R(0)
        ELSE LET effectiveStart == IF isBefore(yearStart, loan.originationDate)
                                   THEN loan.originationDate ELSE yearStart
                 effectiveEnd == IF isBefore(loan.maturityDate, yearEnd)
                                 THEN loan.maturityDate ELSE yearEnd
                 days == daysBetween(effectiveStart, effectiveEnd)
                 yearDays == daysInYear(y)
             IN  Mul(Mul(R(loan.principalAmount), loan.annualInterestRate),
                     Div(R(days), R(yearDays)))

----------------------------------------------------------------------------
(* services/calculation.ts: net value report *)

\* the GrantSummary of one grant
GrantSummary(g, exchanges, sales, price, asOfDate) ==
    LET vestedShares == VestedShares(g, asOfDate)
        exchangedShares == getExchangedShares(exchanges, g.id, asOfDate)
        soldShares == getSoldShares(sales, g.id, asOfDate)
        heldShares == Max(0, vestedShares - exchangedShares - soldShares)
    IN  [grantId |-> g.id,
         vestedShares |-> vestedShares,
         unvestedShares |-> g.totalShares - vestedShares,
         totalShares |-> g.totalShares,
         exchangedShares |-> exchangedShares,
         soldShares |-> soldShares,
         heldShares |-> heldShares,
         shareValue |-> Mul(R(heldShares), price)]

\* LoanDetail with the nominal full-year interest as the accrued interest
LoanDetail_FullYearInterest(l, asOfDate) ==
    [loanId |-> l.id,
     principal |-> l.principalAmount,
     annualInterest |-> Mul(R(l.principalAmount), l.annualInterestRate),
     accruedInterestToDate |-> Mul(R(l.principalAmount), l.annualInterestRate),
     maturityDate |-> l.maturityDate]

\* the LoanDetail of one loan
LoanDetail(l, asOfDate) ==
    [loanId |-> l.id,
     principal |-> l.principalAmount,
     annualInterest |-> Mul(R(l.principalAmount), l.annualInterestRate),
     accruedInterestToDate |-> calculateAccruedInterest(l, asOfDate),
     maturityDate |-> l.maturityDate]

\* totalAllLoanPrincipal restricted to the loans active within their window
totalAllLoanPrincipal_InWindow(loans, asOfDate) ==
    SumInt(Map(getActiveLoans(loans, asOfDate), LAMBDA l : l.principalAmount))

\* the local totalAllLoanPrincipal of calculateNetValue
totalAllLoanPrincipal(loans, asOfDate) ==
    SumInt(Map(SelectSeq(loans, LAMBDA l : l.status = "active"),
               LAMBDA l : l.principalAmount))

calculateNetValue(p, asOfDate) ==
    LET stockPrice == getStockPriceOnDate(p.stockPrices, asOfDate)
        price == IF stockPrice = null THEN R(0) ELSE stockPrice
        exchanges == p.shareExchanges
        sales == p.stockSales
        byGrant == Map(p.grants, LAMBDA g : GrantSummary(g, exchanges, sales, price, asOfDate))
        activeLoans == getActiveLoans(p.loans, asOfDate)
        byLoan == Map(activeLoans, LAMBDA l : LoanDetail(l, asOfDate))
        totalVestedShares == SumInt(Map(byGrant, LAMBDA g : g.vestedShares))
        totalUnvestedShares == SumInt(Map(byGrant, LAMBDA g : g.unvestedShares))
        totalHeldShares == SumInt(Map(byGrant, LAMBDA g : g.heldShares))
        totalExchangedShares == SumInt(Map(byGrant, LAMBDA g : g.exchangedShares))
        totalSoldShares == SumInt(Map(byGrant, LAMBDA g : g.soldShares))
        totalRealizedGains ==
            SumInt(Map(SelectSeq(sales, LAMBDA s : isOnOrBefore(s.date, asOfDate)),
                       LAMBDA s : (s.pricePerShare - s.costBasis) * s.sharesSold))
        grossShareValue == Mul(R(totalHeldShares), price)
        totalLoanPrincipal == SumInt(Map(byLoan, LAMBDA l : l.principal))
        totalAccruedInterest == SumNum(Map(byLoan, LAMBDA l : l.accruedInterestToDate))
        potentialGross == Mul(R(totalHeldShares + totalUnvestedShares), price)
    IN  [asOfDate |-> asOfDate,
         stockPrice |-> stockPrice,
         totalVestedShares |-> totalVestedShares,
         totalUnvestedShares |-> totalUnvestedShares,
         totalHeldShares |-> totalHeldShares,
         totalExchangedShares |-> totalExchangedShares,
         totalSoldShares |-> totalSoldShares,
         totalRealizedGains |-> totalRealizedGains,
         grossShareValue |-> grossShareValue,
         totalLoanPrincipal |-> totalLoanPrincipal,
         totalAccruedInterest |-> totalAccruedInterest,
         netValue |-> Sub(Sub(grossShareValue, R(totalLoanPrincipal)), totalAccruedInterest),
         potentialNetValue |-> Sub(potentialGross, R(totalAllLoanPrincipal(p.loans, asOfDate))),
         byGrant |-> byGrant,
         byLoan |-> byLoan]

----------------------------------------------------------------------------
(* services/calculation.ts: projection engine *)

\* [].concat(...xss)
RECURSIVE Flatten(_)
Flatten(xss) == IF xss = <<>> THEN <<>> ELSE Head(xss) \o Flatten(Tail(xss))

\* the local basePrice of projectFutureValue
basePrice(p) == getLatestStockPrice(p.stockPrices)

\* basePriceYear taken from the entry of the earliest date
basePriceYear_Earliest(p) == getYear(SortByDate(p.stockPrices, FALSE)[1].date)

\* the local basePriceYear of projectFutureValue (read only when a price exists)
basePriceYear(p) == getYear(SortByDate(p.stockPrices, TRUE)[1].date)

\* the local projectedPrice of the loop body for year y
projectedPrice(p, annualGrowthRate, y) ==
    Mul(basePrice(p), MathPow(Add(R(1), annualGrowthRate), y - basePriceYear(p)))

\* the vesting events of year y: one per tranche whose vestDate has that year
VestingEvents(p, y) ==
    Flatten(Map(p.grants, LAMBDA g :
        Map(SelectSeq(g.vestingSchedule, LAMBDA t : getYear(t.vestDate) = y),
            LAMBDA t : [date |-> t.vestDate, type |-> "vesting",
                        shares |-> t.numberOfShares])))

\* LoansMaturingIn without the check of the status
LoansMaturingIn_AnyStatus(p, y) ==
    SelectSeq(p.loans, LAMBDA l : getYear(l.maturityDate) = y)

\* the loans the loop over portfolio.loans does not skip in year y
LoansMaturingIn(p, y) ==
    SelectSeq(p.loans, LAMBDA l : l.status = "active" /\ getYear(l.maturityDate) = y)

\* totalOwed with the days of the year of the maturity as the divisor
totalOwed_DaysOfYear(loan) ==
    LET yearsActive == Div(R(daysBetween(loan.originationDate, loan.maturityDate)),
                           R(daysInYear(getYear(loan.maturityDate))))
    IN  Mul(R(loan.principalAmount), Add(R(1), Mul(loan.annualInterestRate, yearsActive)))

\* the local totalOwed of a maturing loan
totalOwed(loan) ==
    LET yearsActive == Div(R(daysBetween(loan.originationDate, loan.maturityDate)), R(365))
    IN  Mul(R(loan.principalAmount), Add(R(1), Mul(loan.annualInterestRate, yearsActive)))

\* sharesNeeded rounded down instead of up
sharesNeeded_Floor(loan, price) ==
    LET shares == Div(totalOwed(loan), price)
    IN  IF shares.d = 0 THEN shares ELSE R(shares.n \div shares.d)

\* the local sharesNeeded of a maturing loan
sharesNeeded(loan, price) == MathCeil(Div(totalOwed(loan), price))

\* the loan_maturity and planned_sale events of one maturing loan
MaturityEvents(p, loan, price) ==
    LET capGainsPerShare == Sub(price, Mul(basePrice(p), Norm(8, 10)))
        taxImpact == Mul(Mul(sharesNeeded(loan, price), capGainsPerShare), Norm(15, 100))
    IN  << [date |-> loan.maturityDate, type |-> "loan_maturity",
            amount |-> totalOwed(loan)],
           [date |-> loan.maturityDate, type |-> "planned_sale",
            shares |-> sharesNeeded(loan, price),
            amount |-> Mul(sharesNeeded(loan, price), price),
            taxImpact |-> taxImpact] >>

\* PlannedSaleSharesAfter that starts every year from zero
PlannedSaleSharesAfter_PerYear(cumulative, p, annualGrowthRate, y) ==
    SumNumFrom(R(0),
               Map(LoansMaturingIn(p, y),
                   LAMBDA l : sharesNeeded(l, projectedPrice(p, annualGrowthRate, y))))

\* cumulativePlannedSaleShares after the loans of year y were visited
PlannedSaleSharesAfter(cumulative, p, annualGrowthRate, y) ==
    SumNumFrom(cumulative,
               Map(LoansMaturingIn(p, y),
                   LAMBDA l : sharesNeeded(l, projectedPrice(p, annualGrowthRate, y))))

\* the YearProjection pushed by the loop body for year y, where cumulative is
\* cumulativePlannedSaleShares after the loans of the year were visited
YearProjection(p, annualGrowthRate, y, cumulative) ==
    LET yearEnd == <<y, 12, 31>>
        price == projectedPrice(p, annualGrowthRate, y)
        events == VestingEvents(p, y)
                    \o Flatten(Map(LoansMaturingIn(p, y),
                                   LAMBDA l : MaturityEvents(p, l, price)))
        totalVested == getTotalVestedShares(p.grants, yearEnd)
        totalExchanged ==
            SumInt(Map(p.shareExchanges, LAMBDA e :
                IF isOnOrBefore(e.date, yearEnd) THEN e.sharesExchanged ELSE 0))
        totalSold ==
            SumInt(Map(p.stockSales, LAMBDA sale :
                IF isOnOrBefore(sale.date, yearEnd) THEN sale.sharesSold ELSE 0))
        heldShares ==
            MathMax(R(0), Sub(R(totalVested - totalExchanged - totalSold), cumulative))
        activeLoansAtYearEnd ==
            SelectSeq(p.loans, LAMBDA l :
                /\ l.status = "active"
                /\ isOnOrBefore(l.originationDate, yearEnd)
                /\ ~isBefore(l.maturityDate, yearEnd))
        loansOutstanding == SumInt(Map(activeLoansAtYearEnd, LAMBDA l : l.principalAmount))
        accruedInterest ==
            SumNum(Map(activeLoansAtYearEnd,
                       LAMBDA l : Mul(R(l.principalAmount), l.annualInterestRate)))
        grossValue == Mul(heldShares, price)
        netValue == Sub(Sub(grossValue, R(loansOutstanding)), accruedInterest)
    IN  [year |-> y,
         projectedStockPrice |-> Div(MathRound(Mul(price, R(100))), R(100)),
         vestedShares |-> totalVested,
         heldShares |-> heldShares,
         loansOutstanding |-> loansOutstanding,
         accruedInterest |-> Div(MathRound(Mul(accruedInterest, R(100))), R(100)),
         grossValue |-> MathRound(grossValue),
         netValue |-> MathRound(netValue),
         events |-> events]

----------------------------------------------------------------------------
(* services/calculation.ts: taxable events and interest expense *)

\* the event of one tranche valued at the latest recorded price
TaxableEvent_LatestPrice(p, grant, tranche, treatment) ==
    LET found == getLatestStockPrice(p.stockPrices)
        priceAtVest == IF found = null THEN R(0) ELSE found
    IN  [date |-> tranche.vestDate,
         grantId |-> grant.id,
         shares |-> tranche.numberOfShares,
         pricePerShare |-> priceAtVest,
         totalValue |->
            IF treatment = "capital_gains"
            THEN Mul(R(tranche.numberOfShares), Sub(priceAtVest, grant.pricePerShareAtGrant))
            ELSE Mul(R(tranche.numberOfShares), priceAtVest),
         taxTreatment |-> treatment]

\* the event pushed for one tranche in getFilteredTaxableEvents
TaxableEvent(p, grant, tranche, treatment) ==
    LET found == getStockPriceOnDate(p.stockPrices, tranche.vestDate)
        priceAtVest == IF found = null THEN R(0) ELSE found
    IN  [date |-> tranche.vestDate,
         grantId |-> grant.id,
         shares |-> tranche.numberOfShares,
         pricePerShare |-> priceAtVest,
         totalValue |->
            IF treatment = "capital_gains"
            THEN Mul(R(tranche.numberOfShares), Sub(priceAtVest, grant.pricePerShareAtGrant))
            ELSE Mul(R(tranche.numberOfShares), priceAtVest),
         taxTreatment |-> treatment]

\* the events of one grant with the tranches strictly before upToDate
GrantTaxableEvents_BeforeUpTo(p, grant, upToDate, treatment) ==
    Map(SelectSeq(grant.vestingSchedule,
                  LAMBDA t : t.taxTreatment = treatment /\ isBefore(t.vestDate, upToDate)),
        LAMBDA t : TaxableEvent(p, grant, t, treatment))

\* the inner loop of getFilteredTaxableEvents: the events of one grant
GrantTaxableEvents(p, grant, upToDate, treatment) ==
    Map(SelectSeq(grant.vestingSchedule,
                  LAMBDA t : t.taxTreatment = treatment /\ isOnOrBefore(t.vestDate, upToDate)),
        LAMBDA t : TaxableEvent(p, grant, t, treatment))

getFilteredTaxableEvents(p, upToDate, treatment) ==
    SortByDate(Flatten(Map(p.grants,
                           LAMBDA g : GrantTaxableEvents(p, g, upToDate, treatment))),
               FALSE)

getIncomeTaxableEvents(p, upToDate) == getFilteredTaxableEvents(p, upToDate, "income")

getCapGainsTaxableEvents(p, upToDate) ==
    getFilteredTaxableEvents(p, upToDate, "capital_gains")

\* the entry of one year with every loan in its breakdown
InterestExpenseOfYear_EveryLoan(loans, y) ==
    LET byLoan == Map(loans,
                      LAMBDA l : [loanId |-> l.id,
                                  principal |-> l.principalAmount,
                                  rate |-> l.annualInterestRate,
                                  interest |-> calculateInterestForYear(l, y)])
    IN  [year |-> y,
         totalInterest |-> SumNum(Map(byLoan, LAMBDA e : e.interest)),
         deductibleInYear |-> y + 1,
         byLoan |-> byLoan]

\* one iteration of the loop of getInterestExpenseByYear
InterestExpenseOfYear(loans, y) ==
    LET charged == SelectSeq(loans, LAMBDA l : Lt(R(0), calculateInterestForYear(l, y)))
        byLoan == Map(charged,
                      LAMBDA l : [loanId |-> l.id,
                                  principal |-> l.principalAmount,
                                  rate |-> l.annualInterestRate,
                                  interest |-> calculateInterestForYear(l, y)])
    IN  [year |-> y,
         totalInterest |-> SumNum(Map(byLoan, LAMBDA e : e.interest)),
         deductibleInYear |-> y + 1,
         byLoan |-> byLoan]

getInterestExpenseByYear(loans, fromYear, toYear) ==
    [i \in 1..(toYear - fromYear + 1) |-> InterestExpenseOfYear(loans, fromYear + i - 1)]

----------------------------------------------------------------------------
(* context/PortfolioContext.tsx and services/import-export.ts: the writes of *)
(* stock prices                                                             *)

\* portfolioReducer, case ADD_STOCK_PRICE
ADD_STOCK_PRICE(state, price) ==
    [state EXCEPT !.stockPrices = SortByDate(Append(state.stockPrices, price), FALSE)]

\* UPDATE_STOCK_PRICE that leaves the replaced entry where the old one was
UPDATE_STOCK_PRICE_InPlace(state, oldDate, price) ==
    [state EXCEPT !.stockPrices =
        Map(state.stockPrices, LAMBDA p : IF p.date = oldDate THEN price ELSE p)]

\* portfolioReducer, case UPDATE_STOCK_PRICE
UPDATE_STOCK_PRICE(state, oldDate, price) ==
    [state EXCEPT !.stockPrices =
        SortByDate(Map(state.stockPrices, LAMBDA p : IF p.date = oldDate THEN price ELSE p),
                   FALSE)]

\* portfolioReducer, case DELETE_STOCK_PRICE
DELETE_STOCK_PRICE(state, date) ==
    [state EXCEPT !.stockPrices = SelectSeq(state.stockPrices, LAMBDA p : p.date # date)]

\* Map.prototype.set on the values of a Map keyed by date, in insertion order
PriceMapSet(values, p) ==
    IF \E i \in 1..Len(values) : values[i].date = p.date
    THEN [i \in 1..Len(values) |-> IF values[i].date = p.date THEN p ELSE values[i]]
    ELSE Append(values, p)

\* the values of the Map after every entry of prices was set, in order
RECURSIVE PriceMapSetAll(_, _)
PriceMapSetAll(values, prices) ==
    IF prices = <<>> THEN values
    ELSE PriceMapSetAll(PriceMapSet(values, Head(prices)), Tail(prices))

\* the local mergedPrices of mergePortfolios
mergedPrices(existing, incoming) ==
    SortByDate(PriceMapSetAll(PriceMapSetAll(<<>>, existing.stockPrices),
                              incoming.stockPrices),
               FALSE)

----------------------------------------------------------------------------
(* JSON.stringify and JSON.parse, as the storage provider and the import and *)
(* export services use them.  A text is either not JSON at all or the JSON   *)
(* value it denotes; a JSON value carries its kind ("object", "array",       *)
(* "string", "null"), an object its properties, an array its items.  A       *)
(* property a value does not have reads as undefined.                        *)

undefined == [kind |-> "undefined"]

JSONArray(items) == [kind |-> "array", items |-> items]

JSONObject(value) == [kind |-> "object", value |-> value]

JSONText(json) == [text |-> "json", json |-> json]

\* '{bad json!!!', a text JSON.parse throws on
CorruptText == [text |-> "{bad json!!!"]

SyntaxError == [throws |-> "SyntaxError"]

\* the error of a property read of null
TypeError == [throws |-> "TypeError"]

\* an item of an array that is a number and not an object
IsPrimitive(v) == DOMAIN v = {"n", "d"}

\* a number as JSON.stringify writes it: NaN and the infinities become null
JSONNumber(x) == IF IsFinite(x) THEN x ELSE null

\* the records of the six collections as JSON.stringify writes them
JSONTranche(t) == [t EXCEPT !.numberOfShares = JSONNumber(@)]

JSONGrant(g) ==
    [g EXCEPT !.totalShares = JSONNumber(@),
              !.pricePerShareAtGrant = JSONNumber(@),
              !.vestingSchedule = [i \in 1..Len(@) |-> JSONTranche(@[i])]]

JSONLoan(l) ==
    [l EXCEPT !.principalAmount = JSONNumber(@), !.annualInterestRate = JSONNumber(@)]

JSONStockPrice(p) == [p EXCEPT !.pricePerShare = JSONNumber(@)]

JSONProgramConfig(c) ==
    [c EXCEPT !.programYear = JSONNumber(@),
              !.standardInterestRate = JSONNumber(@),
              !.standardLoanTermYears = JSONNumber(@),
              !.downPaymentPercent = JSONNumber(@),
              !.freeShareRatio = JSONNumber(@),
              !.catchUpShareRatio = JSONNumber(@)]

JSONShareExchange(e) ==
    [e EXCEPT !.sharesExchanged = JSONNumber(@),
              !.pricePerShareAtExchange = JSONNumber(@)]

JSONStockSale(s) ==
    [s EXCEPT !.sharesSold = JSONNumber(@),
              !.pricePerShare = JSONNumber(@),
              !.costBasis = JSONNumber(@)]

\* the records of the collection of a name as JSON.stringify writes them
JSONRecords(name, records) ==
    CASE name = "grants" -> Map(records, JSONGrant)
      [] name = "loans" -> Map(records, JSONLoan)
      [] name = "stockPrices" -> Map(records, JSONStockPrice)
      [] name = "programConfigs" -> Map(records, JSONProgramConfig)
      [] name = "shareExchanges" -> Map(records, JSONShareExchange)
      [] name = "stockSales" -> Map(records, JSONStockSale)

\* JSON.stringify(portfolio): an object with an array for every property the
\* portfolio has
JSONstringify(p) ==
    JSONText(JSONObject([name \in DOMAIN p |-> JSONArray(JSONRecords(name, p[name]))]))

\* JSON.parse(text): the value of the text, or a SyntaxError thrown
JSONparse(text) == IF text.text = "json" THEN text.json ELSE SyntaxError

\* data[name] of a parsed value
Property(data, name) ==
    IF data.kind = "object" /\ name \in DOMAIN data.value THEN data.value[name]
    ELSE undefined

\* Array.isArray(v)
IsArray(v) == v.kind = "array"

----------------------------------------------------------------------------
(* storage/local-storage-provider.ts *)

\* models/portfolio.ts: createEmptyPortfolio()
createEmptyPortfolio ==
    [grants |-> <<>>, loans |-> <<>>, stockPrices |-> <<>>,
     programConfigs |-> <<>>, shareExchanges |-> <<>>, stockSales |-> <<>>]

\* migrate(data): the object returned has the three properties grants, loans
\* and stockPrices
migrate(data) ==
    LET empty == createEmptyPortfolio
    IN  [grants |-> IF IsArray(Property(data, "grants"))
                    THEN Property(data, "grants").items ELSE empty.grants,
         loans |-> IF IsArray(Property(data, "loans"))
                   THEN Property(data, "loans").items ELSE empty.loans,
         stockPrices |-> IF IsArray(Property(data, "stockPrices"))
                         THEN Property(data, "stockPrices").items ELSE empty.stockPrices]

\* load(): raw is the item under the key (null when there is none); a parse
\* that throws and a property read of null that throws are both caught
load(raw) ==
    IF raw = null THEN createEmptyPortfolio
    ELSE LET parsed == JSONparse(raw)
         IN  IF parsed = SyntaxError THEN createEmptyPortfolio
             ELSE IF parsed.kind = "null" THEN createEmptyPortfolio
             ELSE migrate(parsed)

\* save(portfolio): the item written under the key
save(p) == JSONstringify(p)

----------------------------------------------------------------------------
(* models/*.ts: the validators.  A date text is the triple of its numbers,  *)
(* the empty text is <<>>; a number of a parsed record can be null.          *)

\* /^\d{4}-\d{2}-\d{2}$/.test(text)
MatchesIsoDate(text) ==
    /\ Len(text) = 3
    /\ text[1] \in 0..9999
    /\ text[2] \in 0..99
    /\ text[3] \in 0..99

\* !text || !/^\d{4}-\d{2}-\d{2}$/.test(text)
NoIsoDate(text) == text = <<>> \/ ~MatchesIsoDate(text)

\* the number a comparison or a sum reads an operand as: null reads as 0
ToNumber(x) == IF x = null THEN R(0) ELSE x

\* x == null || x < bound, x == null || x <= bound
NullOrLt(x, bound) == x = null \/ Lt(x, bound)

NullOrLe(x, bound) == x = null \/ Le(x, bound)

\* Math.abs
MathAbs(a) == [n |-> Abs(a.n), d |-> a.d]

\* the error of a condition: one message when it holds
ErrorIf(cond, message) == IF cond THEN <<message>> ELSE <<>>

GRANT_TYPES == {"purchase", "free", "catch_up", "bonus"}

LOAN_TYPES == {"purchase", "tax", "interest"}

SALE_REASONS == {"loan_payoff", "tax_payment", "voluntary"}

\* the loop of validateGrant over the tranches: the error of the first tranche
\* that fails a check, then break
RECURSIVE TrancheErrors(_)
TrancheErrors(schedule) ==
    IF schedule = <<>> THEN <<>>
    ELSE IF NoIsoDate(Head(schedule).vestDate)
         THEN <<"Each vesting tranche must have a valid date (YYYY-MM-DD).">>
    ELSE IF Le(ToNumber(Head(schedule).numberOfShares), R(0))
         THEN <<"Each vesting tranche must have a positive number of shares.">>
    ELSE TrancheErrors(Tail(schedule))

validateGrant(grant) ==
    ErrorIf(grant.type \notin GRANT_TYPES,
            "Grant type is required and must be a valid type.")
    \o ErrorIf(NoIsoDate(grant.grantDate), "Grant date is required (YYYY-MM-DD).")
    \o ErrorIf(NullOrLe(grant.totalShares, R(0)),
               "Total shares must be a positive number.")
    \o ErrorIf(NullOrLt(grant.pricePerShareAtGrant, R(0)),
               "Price per share at grant must be non-negative.")
    \o (IF Len(grant.vestingSchedule) = 0
        THEN <<"At least one vesting tranche is required.">>
        ELSE LET totalTrancheShares ==
                     SumNum(Map(grant.vestingSchedule,
                                LAMBDA t : ToNumber(t.numberOfShares)))
             IN  ErrorIf(/\ grant.totalShares # null
                         /\ Lt(Norm(1, 1000),
                               MathAbs(Sub(totalTrancheShares, grant.totalShares))),
                         \* the message of the source names the two totals
                         "Vesting tranche shares must equal total shares.")
                 \o TrancheErrors(grant.vestingSchedule))

validateLoan(loan) ==
    ErrorIf(loan.type \notin LOAN_TYPES,
            "Loan type is required and must be a valid type.")
    \o ErrorIf(NullOrLe(loan.principalAmount, R(0)),
               "Principal amount must be a positive number.")
    \o ErrorIf(NullOrLt(loan.annualInterestRate, R(0)),
               "Annual interest rate must be non-negative.")
    \o ErrorIf(loan.annualInterestRate # null /\ Lt(R(1), loan.annualInterestRate),
               "Annual interest rate should be a decimal (e.g., 0.04 for 4%), not a percentage.")
    \o ErrorIf(NoIsoDate(loan.originationDate),
               "Origination date is required (YYYY-MM-DD).")
    \o ErrorIf(NoIsoDate(loan.maturityDate), "Maturity date is required (YYYY-MM-DD).")
    \o ErrorIf(/\ loan.originationDate # <<>>
               /\ loan.maturityDate # <<>>
               /\ ~isBefore(loan.originationDate, loan.maturityDate),
               "Maturity date must be after origination date.")
    \o ErrorIf(loan.status = "", "Loan status is required.")

validateStockPrice(price) ==
    ErrorIf(NoIsoDate(price.date), "Date is required (YYYY-MM-DD).")
    \o ErrorIf(NullOrLt(price.pricePerShare, R(0)),
               "Price per share must be non-negative.")

validateProgramConfig(config) ==
    ErrorIf(config.name = "", "Program name is required.")
    \o ErrorIf(NullOrLt(config.programYear, R(2000)),
               "Program year is required and must be 2000 or later.")
    \o ErrorIf(\/ NullOrLt(config.standardInterestRate, R(0))
               \/ Lt(R(1), config.standardInterestRate),
               "Standard interest rate must be between 0 and 1 (decimal).")
    \o ErrorIf(NullOrLe(config.standardLoanTermYears, R(0)),
               "Standard loan term must be a positive number of years.")
    \o ErrorIf(\/ NullOrLt(config.downPaymentPercent, R(0))
               \/ Lt(R(1), config.downPaymentPercent),
               "Down payment percent must be between 0 and 1.")
    \o ErrorIf(NullOrLt(config.freeShareRatio, R(0)),
               "Free share ratio must be non-negative.")
    \o ErrorIf(NullOrLt(config.catchUpShareRatio, R(0)),
               "Catch-up share ratio must be non-negative.")

validateShareExchange(exchange) ==
    ErrorIf(NoIsoDate(exchange.date), "Exchange date is required (YYYY-MM-DD).")
    \o ErrorIf(exchange.sourceGrantId = "", "Source grant is required.")
    \o ErrorIf(exchange.targetGrantId = "", "Target grant is required.")
    \o ErrorIf(NullOrLe(exchange.sharesExchanged, R(0)),
               "Shares exchanged must be a positive number.")
    \o ErrorIf(NullOrLe(exchange.pricePerShareAtExchange, R(0)),
               "Price per share at exchange must be positive.")

validateStockSale(sale) ==
    ErrorIf(NoIsoDate(sale.date), "Sale date is required (YYYY-MM-DD).")
    \o ErrorIf(sale.sourceGrantId = "", "Source grant is required.")
    \o ErrorIf(NullOrLe(sale.sharesSold, R(0)), "Shares sold must be a positive number.")
    \o ErrorIf(NullOrLe(sale.pricePerShare, R(0)), "Price per share must be positive.")
    \o ErrorIf(NullOrLt(sale.costBasis, R(0)), "Cost basis must be non-negative.")
    \o ErrorIf(sale.reason \notin SALE_REASONS, "Sale reason is required.")

----------------------------------------------------------------------------
(* services/import-export.ts: import and export.  A warning of the source is *)
(* the text `${kind} ${i}: ${errors.join('; ')}`; here it is the record of   *)
(* its kind, its index and its errors.                                       *)

Warning(kind, index, errors) == [kind |-> kind, index |-> index, errors |-> errors]

\* warnings.push(`${name} field is not an array, skipping.`)
NotAnArray(name) == Warning(name, -1, <<"field is not an array, skipping.">>)

\* the warnings of one collection, from the errors of its records from index i on
RECURSIVE WarningsFrom(_, _, _)
WarningsFrom(kind, errors, i) ==
    IF i > Len(errors) THEN <<>>
    ELSE (IF Len(errors[i]) > 0 THEN <<Warning(kind, i - 1, errors[i])>> ELSE <<>>)
         \o WarningsFrom(kind, errors, i + 1)

\* the names of the six collections
CollectionNames ==
    {"grants", "loans", "stockPrices", "programConfigs", "shareExchanges", "stockSales"}

\* what the validator of a collection reads from an item that has none of the
\* properties: every read gives undefined, which the checks take as a text, a
\* number or a schedule that is missing
NoProperties(name) ==
    CASE name = "grants" ->
             [type |-> "", grantDate |-> <<>>, totalShares |-> null,
              pricePerShareAtGrant |-> null, vestingSchedule |-> <<>>]
      [] name = "loans" ->
             [type |-> "", principalAmount |-> null, annualInterestRate |-> null,
              originationDate |-> <<>>, maturityDate |-> <<>>, status |-> ""]
      [] name = "stockPrices" -> [date |-> <<>>, pricePerShare |-> null]
      [] name = "programConfigs" ->
             [name |-> "", programYear |-> null, standardInterestRate |-> null,
              standardLoanTermYears |-> null, downPaymentPercent |-> null,
              freeShareRatio |-> null, catchUpShareRatio |-> null]
      [] name = "shareExchanges" ->
             [date |-> <<>>, sourceGrantId |-> "", targetGrantId |-> "",
              sharesExchanged |-> null, pricePerShareAtExchange |-> null]
      [] name = "stockSales" ->
             [date |-> <<>>, sourceGrantId |-> "", sharesSold |-> null,
              pricePerShare |-> null, costBasis |-> null, reason |-> ""]

\* the properties a validator reads from an item of the collection of a name
PropertiesOf(item, name) == IF IsPrimitive(item) THEN NoProperties(name) ELSE item

\* the validator of a collection reads a property of its argument in its first
\* check: on an item that is null the read throws a TypeError, and nothing in
\* importPortfolioFromJson catches it
ThrowsOn(data, name) ==
    /\ IsArray(Property(data, name))
    /\ \E i \in 1..Len(Property(data, name).items) : Property(data, name).items[i] = null

\* one collection of importPortfolioFromJson: the records without errors are
\* pushed in their order, every other record pushes a warning; a property that
\* is there and is not an array pushes a warning
ImportCollection(data, name, kind, validate(_)) ==
    LET field == Property(data, name)
    IN  IF IsArray(field)
        THEN [records |-> SelectSeq(field.items,
                                    LAMBDA r : Len(validate(PropertiesOf(r, name))) = 0),
              warnings |->
                  WarningsFrom(kind,
                               Map(field.items, LAMBDA r : validate(PropertiesOf(r, name))),
                               1)]
        ELSE [records |-> <<>>,
              warnings |-> IF field.kind # "undefined" THEN <<NotAnArray(name)>>
                           ELSE <<>>]

ImportResult(success, p, warnings, errors) ==
    [success |-> success, portfolio |-> p, warnings |-> warnings, errors |-> errors]

importPortfolioFromJson(json) ==
    LET raw == JSONparse(json)
    IN  IF raw = SyntaxError
        THEN ImportResult(FALSE, createEmptyPortfolio, <<>>, <<"Invalid JSON">>)
        ELSE IF raw.kind # "object"
        THEN ImportResult(FALSE, createEmptyPortfolio, <<>>,
                 <<"JSON must be an object with grants, loans, and stockPrices arrays.">>)
        ELSE IF \E name \in CollectionNames : ThrowsOn(raw, name) THEN TypeError
        ELSE LET grants == ImportCollection(raw, "grants", "Grant", validateGrant)
                 loans == ImportCollection(raw, "loans", "Loan", validateLoan)
                 stockPrices ==
                     ImportCollection(raw, "stockPrices", "Stock price", validateStockPrice)
                 programConfigs ==
                     ImportCollection(raw, "programConfigs", "Program config",
                                      validateProgramConfig)
                 shareExchanges ==
                     ImportCollection(raw, "shareExchanges", "Share exchange",
                                      validateShareExchange)
                 stockSales ==
                     ImportCollection(raw, "stockSales", "Stock sale", validateStockSale)
                 errors == <<>>
             IN  ImportResult(Len(errors) = 0,
                     [grants |-> grants.records, loans |-> loans.records,
                      stockPrices |-> stockPrices.records,
                      programConfigs |-> programConfigs.records,
                      shareExchanges |-> shareExchanges.records,
                      stockSales |-> stockSales.records],
                     grants.warnings \o loans.warnings \o stockPrices.warnings
                         \o programConfigs.warnings \o shareExchanges.warnings
                         \o stockSales.warnings,
                     errors)

exportPortfolioToJson(p) == JSONstringify(p)

----------------------------------------------------------------------------
(* context/PortfolioContext.tsx: the reducer and the provider *)

\* ReplaceById that adds the record when no entry has its id
ReplaceById_OrAppend(xs, record) ==
    IF \E i \in 1..Len(xs) : xs[i].id = record.id
    THEN [i \in 1..Len(xs) |-> IF xs[i].id = record.id THEN record ELSE xs[i]]
    ELSE Append(xs, record)

\* xs.map((x) => (x.id === record.id ? record : x))
ReplaceById(xs, record) ==
    [i \in 1..Len(xs) |-> IF xs[i].id = record.id THEN record ELSE xs[i]]

\* xs.filter((x) => x.id !== id)
RemoveById(xs, id) == SelectSeq(xs, LAMBDA x : x.id # id)

portfolioReducer(state, action) ==
    CASE action.type = "SET_PORTFOLIO" -> action.portfolio
      [] action.type = "ADD_GRANT" ->
            [state EXCEPT !.grants = Append(@, action.grant)]
      [] action.type = "UPDATE_GRANT" ->
            [state EXCEPT !.grants = ReplaceById(@, action.grant)]
      [] action.type = "DELETE_GRANT" ->
            [state EXCEPT !.grants = RemoveById(@, action.grantId)]
      [] action.type = "ADD_LOAN" ->
            [state EXCEPT !.loans = Append(@, action.loan)]
      [] action.type = "UPDATE_LOAN" ->
            [state EXCEPT !.loans = ReplaceById(@, action.loan)]
      [] action.type = "DELETE_LOAN" ->
            [state EXCEPT !.loans = RemoveById(@, action.loanId)]
      [] action.type = "ADD_STOCK_PRICE" -> ADD_STOCK_PRICE(state, action.price)
      [] action.type = "UPDATE_STOCK_PRICE" ->
            UPDATE_STOCK_PRICE(state, action.oldDate, action.price)
      [] action.type = "DELETE_STOCK_PRICE" -> DELETE_STOCK_PRICE(state, action.date)
      [] action.type = "ADD_PROGRAM_CONFIG" ->
            [state EXCEPT !.programConfigs = Append(@, action.config)]
      [] action.type = "UPDATE_PROGRAM_CONFIG" ->
            [state EXCEPT !.programConfigs = ReplaceById(@, action.config)]
      [] action.type = "DELETE_PROGRAM_CONFIG" ->
            [state EXCEPT !.programConfigs = RemoveById(@, action.configId)]
      [] action.type = "ADD_SHARE_EXCHANGE" ->
            [state EXCEPT !.shareExchanges = Append(@, action.exchange)]
      [] action.type = "UPDATE_SHARE_EXCHANGE" ->
            [state EXCEPT !.shareExchanges = ReplaceById(@, action.exchange)]
      [] action.type = "DELETE_SHARE_EXCHANGE" ->
            [state EXCEPT !.shareExchanges = RemoveById(@, action.exchangeId)]
      [] action.type = "ADD_STOCK_SALE" ->
            [state EXCEPT !.stockSales = Append(@, action.sale)]
      [] action.type = "UPDATE_STOCK_SALE" ->
            [state EXCEPT !.stockSales = ReplaceById(@, action.sale)]
      [] action.type = "DELETE_STOCK_SALE" ->
            [state EXCEPT !.stockSales = RemoveById(@, action.saleId)]
      [] action.type = "CLEAR_ALL" -> createEmptyPortfolio
      [] OTHER -> state

\* the reducer returns the state object it was given (React then bails out of
\* the render): the default case
SameObject(action) ==
    action.type \notin
        {"SET_PORTFOLIO", "ADD_GRANT", "UPDATE_GRANT", "DELETE_GRANT", "ADD_LOAN",
         "UPDATE_LOAN", "DELETE_LOAN", "ADD_STOCK_PRICE", "UPDATE_STOCK_PRICE",
         "DELETE_STOCK_PRICE", "ADD_PROGRAM_CONFIG", "UPDATE_PROGRAM_CONFIG",
         "DELETE_PROGRAM_CONFIG", "ADD_SHARE_EXCHANGE", "UPDATE_SHARE_EXCHANGE",
         "DELETE_SHARE_EXCHANGE", "ADD_STOCK_SALE", "UPDATE_STOCK_SALE",
         "DELETE_STOCK_SALE", "CLEAR_ALL"}

\* PortfolioProvider: loaded is the promise of storage.load() ("none" before the
\* mount, then "pending", then "resolved"), initialized and loading are the two
\* useState values, effectPending says that portfolio or initialized changed
\* since the effect that saves last ran
ProviderState(loaded, initialized, loading, effectPending) ==
    [loaded |-> loaded, initialized |-> initialized, loading |-> loading,
     effectPending |-> effectPending]

Unmounted == ProviderState("none", FALSE, TRUE, FALSE)

\* after the mount: the state is createEmptyPortfolio(), the first effect has
\* called storage.load(), the second has run with initialized = false
Mounted == ProviderState("pending", FALSE, TRUE, FALSE)

----------------------------------------------------------------------------
(* The inputs drawn *)

\* all sequences over S of length at most n
RECURSIVE SeqsUpTo(_, _)
SeqsUpTo(S, n) ==
    IF n = 0 THEN {<<>>}
    ELSE LET shorter == SeqsUpTo(S, n - 1)
         IN  shorter \cup {Append(xs, x) : xs \in {ys \in shorter : Len(ys) = n - 1}, x \in S}

\* the subsequences of xs (each entry kept or dropped, order kept)
RECURSIVE SubSeqs(_)
SubSeqs(xs) ==
    IF xs = <<>> THEN {<<>>}
    ELSE LET rest == SubSeqs(Tail(xs))
         IN  rest \cup {<<Head(xs)>> \o ys : ys \in rest}

Jan1(y) == <<y, 1, 1>>
Jul1(y) == <<y, 7, 1>>
Dec31(y) == <<y, 12, 31>>

EmptyPortfolio == createEmptyPortfolio

LoanStatuses == {"active", "refinanced", "paid_off"}

Loan(id, status, principal, rate, orig, mat) ==
    [id |-> id, status |-> status, principalAmount |-> principal,
     annualInterestRate |-> rate, originationDate |-> orig, maturityDate |-> mat]

\* one loan: every status, every window of two model dates, with and without interest
SingleLoans ==
    {l \in {Loan("l1", st, 1000, r, o, m) :
                st \in LoanStatuses, r \in {R(0), Norm(4, 100)}, o \in Dates, m \in Dates} :
        isBefore(l.originationDate, l.maturityDate)}

\* the loans of a list: every status, from a Jan 1 to a Dec 31
ListLoans ==
    {l \in {Loan("l", st, 1000, Norm(4, 100), o, m) :
                st \in LoanStatuses,
                o \in {Jan1(y) : y \in Years},
                m \in {Dec31(y) : y \in Years}} :
        isBefore(l.originationDate, l.maturityDate)}

StockPrice(date, price) == [date |-> date, pricePerShare |-> price]

\* the entries of a stock price list: mid-year and year-end dates, zero included
PriceEntries ==
    {StockPrice(d, pr) : d \in {Jul1(y) : y \in Years} \cup {Dec31(y) : y \in Years},
                         pr \in {R(0), R(10), R(25)}}

Tranche(date, shares, treatment) ==
    [vestDate |-> date, numberOfShares |-> shares, taxTreatment |-> treatment]

\* a grant that vests 100 shares on Jan 1 of every model year
Grant1 ==
    [id |-> "g1", totalShares |-> 100 * (YearSpan + 1), pricePerShareAtGrant |-> R(10),
     vestingSchedule |->
        [i \in 1..(YearSpan + 1) |->
            Tranche(Jan1(FirstYear + i - 1), 100,
                    IF i % 2 = 1 THEN "income" ELSE "capital_gains")]]

\* a grant that vests in the second model year, the last tranche on Dec 31
Grant2 ==
    [id |-> "g2", totalShares |-> 75, pricePerShareAtGrant |-> R(20),
     vestingSchedule |-> << Tranche(Jul1(FirstYear + 1), 50, "capital_gains"),
                            Tranche(Dec31(FirstYear + 1), 25, "none") >>]

ShareExchange(date, grantId, shares) ==
    [date |-> date, sourceGrantId |-> grantId, sharesExchanged |-> shares]

StockSale(date, grantId, shares, price, basis) ==
    [date |-> date, sourceGrantId |-> grantId, sharesSold |-> shares,
     pricePerShare |-> price, costBasis |-> basis]

\* the exchanges and sales drawn for the held shares of a grant: mid-year dates,
\* of either grant, less or more than one tranche
ExchangeEntries ==
    {ShareExchange(Jul1(y), g, n) : y \in Years, g \in {"g1", "g2"}, n \in {60, 120}}

SaleEntries ==
    {StockSale(Jul1(y), g, n, 30, 20) : y \in Years, g \in {"g1", "g2"}, n \in {60, 120}}

\* the candidate records of a whole portfolio
CandidateExchanges ==
    << ShareExchange(Dec31(FirstYear), "g1", 150),
       ShareExchange(Jul1(FirstYear + 1), "g9", 30) >>

CandidateSales == << StockSale(Dec31(FirstYear + 1), "g2", 20, 30, 20) >>

CandidatePrices ==
    << StockPrice(Jul1(FirstYear + 1), R(25)),
       StockPrice(Jul1(FirstYear), R(10)),
       StockPrice(Jul1(FirstYear + 1), R(0)) >>

CandidateLoans ==
    << Loan("l1", "active", 1000, Norm(4, 100), Jan1(FirstYear), Jul1(FirstYear + 1)),
       Loan("l2", "active", 2000, Norm(5, 100), Jul1(FirstYear), Dec31(FirstYear + 1)),
       Loan("l3", "paid_off", 4000, Norm(4, 100), Jan1(FirstYear), Jul1(FirstYear + 1)),
       Loan("l4", "active", 500, Norm(4, 100), Jan1(FirstYear + 1), Jul1(FirstYear + 2)) >>

\* the loans of an interest expense report: the candidates, a loan without
\* interest and a refinanced loan
InterestLoans ==
    CandidateLoans \o
    << Loan("l5", "active", 3000, R(0), Jan1(FirstYear), Dec31(FirstYear + 1)),
       Loan("l6", "refinanced", 800, Norm(4, 100), Jul1(FirstYear), Dec31(FirstYear + 1)) >>

\* the grants of a vesting query: at most MaxTranches tranches of 100 shares on
\* model dates, in any order
VestingGrants ==
    {[id |-> "g1", totalShares |-> 100 * Len(ts), pricePerShareAtGrant |-> R(10),
      vestingSchedule |-> ts] :
        ts \in SeqsUpTo({Tranche(d, 100, "income") : d \in Dates}, MaxTranches)}

\* the grants of a taxable events report, in either order
TaxGrants == {<<>>, <<Grant1>>, <<Grant2>>, <<Grant1, Grant2>>, <<Grant2, Grant1>>}

\* the stock prices written to the store: two dates, two prices
StoreDates == {Jul1(FirstYear), Jul1(FirstYear + 1)}

StoreEntries == {StockPrice(d, pr) : d \in StoreDates, pr \in {R(10), R(25)}}

\* the stock prices of a store kept in order: three dates, two prices
OrderedDates == StoreDates \cup {Dec31(FirstYear + 1)}

OrderedEntries == {StockPrice(d, pr) : d \in OrderedDates, pr \in {R(10), R(25)}}

\* the records of a saved or exported portfolio, with the properties the
\* validators read; every number is a number of JavaScript
FileTranche(date, shares) ==
    [id |-> "t1", vestDate |-> date, numberOfShares |-> shares, taxTreatment |-> "income"]

FileGrant(id, type, shares, price, schedule) ==
    [id |-> id, type |-> type, grantDate |-> Jan1(FirstYear), totalShares |-> shares,
     pricePerShareAtGrant |-> price, vestingSchedule |-> schedule]

FileLoan(id, principal, rate, orig, mat) ==
    [id |-> id, type |-> "purchase", principalAmount |-> principal,
     annualInterestRate |-> rate, originationDate |-> orig, maturityDate |-> mat,
     status |-> "active"]

FileConfig(id, name, programYear, rate) ==
    [id |-> id, name |-> name, programYear |-> programYear,
     standardInterestRate |-> rate, standardLoanTermYears |-> R(10),
     downPaymentPercent |-> Norm(1, 10), shareExchangeAvailable |-> TRUE,
     freeShareRatio |-> Norm(1, 2), catchUpShareRatio |-> R(0)]

FileExchange(id, date, source, target, shares, price) ==
    [id |-> id, date |-> date, sourceGrantId |-> source, targetGrantId |-> target,
     sharesExchanged |-> shares, pricePerShareAtExchange |-> price,
     valueAtExchange |-> Mul(shares, price)]

FileSale(id, date, source, shares, price, basis, reason) ==
    [id |-> id, date |-> date, sourceGrantId |-> source, sharesSold |-> shares,
     pricePerShare |-> price, totalProceeds |-> Mul(shares, price),
     costBasis |-> basis, reason |-> reason]

\* collections of a file: valid records, records a validator rejects (a
\* schedule that does not add up, a maturity before the origination, a date
\* out of format, a negative price, a year before 2000, an unknown reason), and
\* a price that is not finite
FileGrantLists ==
    LET good == FileGrant("g1", "purchase", R(100), R(10),
                          <<FileTranche(Jan1(FirstYear + 1), R(100))>>)
        bad == FileGrant("g2", "bonus", R(100), R(10),
                         <<FileTranche(Jan1(FirstYear + 1), R(50))>>)
    IN  {<<>>, <<good>>, <<bad, good>>}

FileLoanLists ==
    LET good == FileLoan("l1", R(1000), Norm(4, 100), Jan1(FirstYear), Jan1(FirstYear + 1))
        bad == FileLoan("l2", R(1000), Norm(4, 100), Jan1(FirstYear + 1), Jan1(FirstYear))
    IN  {<<>>, <<good>>, <<good, bad>>}

FilePriceLists ==
    LET good == StockPrice(Jul1(FirstYear), R(10))
        unbounded == StockPrice(Jul1(FirstYear + 1), Infinity)
        badDate == StockPrice(<<FirstYear, 7, 100>>, R(10))
        negative == StockPrice(Jul1(FirstYear), R(-1))
    IN  {<<>>, <<good>>, <<good, unbounded>>, <<badDate, good, negative>>}

FileConfigLists ==
    LET good == FileConfig("c1", "Program", R(FirstYear), Norm(4, 100))
        bad == FileConfig("c2", "", R(1999), Norm(4, 100))
    IN  {<<>>, <<good>>, <<bad>>}

FileExchangeLists ==
    LET good == FileExchange("e1", Jul1(FirstYear), "g1", "g2", R(30), R(10))
        bad == FileExchange("e2", Jul1(FirstYear), "g1", "", R(30), R(0))
    IN  {<<>>, <<good>>, <<good, bad, good>>}

FileSaleLists ==
    LET good == FileSale("s1", Jul1(FirstYear), "g1", R(20), R(30), R(20), "voluntary")
        bad == FileSale("s2", Jul1(FirstYear), "g1", R(20), R(30), R(20), "gift")
    IN  {<<>>, <<good>>, <<bad>>}

FilePortfolios ==
    [grants : FileGrantLists, loans : FileLoanLists, stockPrices : FilePriceLists,
     programConfigs : FileConfigLists, shareExchanges : FileExchangeLists,
     stockSales : FileSaleLists]

\* texts that no save and no export wrote: a text that is not JSON, the JSON
\* texts "just a string", null and [], an object without grants, an object
\* whose grants and loans are not arrays
ForeignTexts ==
    {CorruptText,
     JSONText([kind |-> "string"]),
     JSONText([kind |-> "null"]),
     JSONText(JSONArray(<<>>)),
     JSONText(JSONObject(
         [loans |-> JSONArray(<<FileLoan("l1", R(1000), Norm(4, 100),
                                         Jan1(FirstYear), Jan1(FirstYear + 1))>>),
          stockPrices |-> JSONArray(<<>>)])),
     JSONText(JSONObject(
         [grants |-> [kind |-> "string"], loans |-> [kind |-> "null"],
          stockPrices |-> JSONArray(<<StockPrice(Jul1(FirstYear), R(10)),
                                      StockPrice(Jul1(FirstYear), null)>>)]))}

\* the items of an array of a hand-written file: a valid record alone, after
\* an item that is a number (a non-object), and before an item that is null
ItemLists(good) == {<<good>>, <<R(5), good>>, <<good, null>>}

\* hand-written files: JSON objects with the six arrays
HandWrittenTexts ==
    {JSONText(JSONObject([name \in CollectionNames |-> JSONArray(p[name])])) :
        p \in [grants : ItemLists(FileGrant("g1", "purchase", R(100), R(10),
                                            <<FileTranche(Jan1(FirstYear + 1), R(100))>>)),
               loans : ItemLists(FileLoan("l1", R(1000), Norm(4, 100),
                                          Jan1(FirstYear), Jan1(FirstYear + 1))),
               stockPrices : ItemLists(StockPrice(Jul1(FirstYear), R(10))),
               programConfigs : ItemLists(FileConfig("c1", "Program", R(FirstYear),
                                                     Norm(4, 100))),
               shareExchanges : ItemLists(FileExchange("e1", Jul1(FirstYear), "g1", "g2",
                                                       R(30), R(10))),
               stockSales : ItemLists(FileSale("s1", Jul1(FirstYear), "g1", R(20), R(30),
                                               R(20), "voluntary"))]}

\* the records of the states and the actions of the reducer: two grants, two
\* loans of the first grant, stock prices of three dates, a program, an
\* exchange and a sale of the first grant, and a record of an id ("x9") or a
\* date (Jul 1 of the second year) that no state holds
ReducerGrant(id, shares) ==
    FileGrant(id, "purchase", R(shares), R(10),
              <<FileTranche(Jan1(FirstYear + 1), R(shares))>>)

ReducerLoan(id, principal) ==
    [relatedGrantId |-> "g1"]
        @@ FileLoan(id, R(principal), Norm(4, 100), Jan1(FirstYear), Jan1(FirstYear + 1))

ReducerConfig(id, name) == FileConfig(id, name, R(FirstYear), Norm(4, 100))

ReducerExchange(id, shares) ==
    FileExchange(id, Jul1(FirstYear), "g1", "g2", R(shares), R(10))

ReducerSale(id, shares) ==
    FileSale(id, Jul1(FirstYear), "g1", R(shares), R(30), R(20), "voluntary")

\* the states of the reducer; the stock prices are in date order, as the
\* reducer and mergePortfolios leave them, two of them of the same date
ReducerStates ==
    [grants : {<<>>, <<ReducerGrant("g1", 100), ReducerGrant("g2", 50)>>},
     loans : {<<>>, <<ReducerLoan("l1", 1000), ReducerLoan("l2", 2000)>>},
     stockPrices : {<<>>,
                    <<StockPrice(Jul1(FirstYear), R(10)),
                      StockPrice(Dec31(FirstYear + 1), R(25))>>,
                    <<StockPrice(Jul1(FirstYear), R(10)),
                      StockPrice(Jul1(FirstYear), R(25)),
                      StockPrice(Dec31(FirstYear + 1), R(25))>>},
     programConfigs : {<<>>, <<ReducerConfig("c1", "Program")>>},
     shareExchanges : {<<>>, <<ReducerExchange("e1", 30), ReducerExchange("e2", 10)>>},
     stockSales : {<<>>, <<ReducerSale("s1", 20)>>}]

\* the actions: for every collection an ADD, an UPDATE and a DELETE of an
\* entry the state may hold and of one it does not hold; for the stock prices
\* also an update that moves the entry to a later date
ReducerActions ==
    {[type |-> "ADD_GRANT", grant |-> ReducerGrant(id, 10)] : id \in {"x9"}}
    \cup {[type |-> "UPDATE_GRANT", grant |-> ReducerGrant(id, 10)] : id \in {"g1", "x9"}}
    \cup {[type |-> "DELETE_GRANT", grantId |-> id] : id \in {"g1", "x9"}}
    \cup {[type |-> "ADD_LOAN", loan |-> ReducerLoan(id, 10)] : id \in {"x9"}}
    \cup {[type |-> "UPDATE_LOAN", loan |-> ReducerLoan(id, 10)] : id \in {"l2", "x9"}}
    \cup {[type |-> "DELETE_LOAN", loanId |-> id] : id \in {"l2", "x9"}}
    \cup {[type |-> "ADD_STOCK_PRICE", price |-> StockPrice(d, R(40))] :
              d \in {Jul1(FirstYear + 1), Dec31(FirstYear + 1)}}
    \cup {[type |-> "UPDATE_STOCK_PRICE", oldDate |-> old, price |-> StockPrice(d, R(40))] :
              old \in {Jul1(FirstYear), Jul1(FirstYear + 1)},
              d \in {Jul1(FirstYear), Dec31(FirstYear + 2)}}
    \cup {[type |-> "DELETE_STOCK_PRICE", date |-> d] :
              d \in {Jul1(FirstYear), Jul1(FirstYear + 1)}}
    \cup {[type |-> "ADD_PROGRAM_CONFIG", config |-> ReducerConfig(id, "Other")] :
              id \in {"x9"}}
    \cup {[type |-> "UPDATE_PROGRAM_CONFIG", config |-> ReducerConfig(id, "Other")] :
              id \in {"c1", "x9"}}
    \cup {[type |-> "DELETE_PROGRAM_CONFIG", configId |-> id] : id \in {"c1", "x9"}}
    \cup {[type |-> "ADD_SHARE_EXCHANGE", exchange |-> ReducerExchange(id, 5)] :
              id \in {"x9"}}
    \cup {[type |-> "UPDATE_SHARE_EXCHANGE", exchange |-> ReducerExchange(id, 5)] :
              id \in {"e1", "x9"}}
    \cup {[type |-> "DELETE_SHARE_EXCHANGE", exchangeId |-> id] : id \in {"e1", "x9"}}
    \cup {[type |-> "ADD_STOCK_SALE", sale |-> ReducerSale(id, 5)] : id \in {"x9"}}
    \cup {[type |-> "UPDATE_STOCK_SALE", sale |-> ReducerSale(id, 5)] : id \in {"s1", "x9"}}
    \cup {[type |-> "DELETE_STOCK_SALE", saleId |-> id] : id \in {"s1", "x9"}}
    \cup {[type |-> "SET_PORTFOLIO", portfolio |-> createEmptyPortfolio],
          [type |-> "CLEAR_ALL"],
          [type |-> "UNKNOWN_ACTION"]}

\* the growth rates of a projection: 50 % and 100 % a year
GrowthRates == {Norm(1, 2), R(1)}

TypeOK == pc \in {"idle", "loop", "done"}

----------------------------------------------------------------------------
(* The calls.  A call of a function that returns at once records the call *)
(* and the value returned; projectFutureValue runs its loop a year a step. *)

loopVars == <<year, cumulativePlannedSaleShares, projections>>

GetStockPriceOnDate(date) ==
    /\ pc = "idle"
    /\ pc' = "done"
    /\ call' = [fn |-> "getStockPriceOnDate", date |-> date]
    /\ ret' = getStockPriceOnDate(portfolio.stockPrices, date)
    /\ UNCHANGED <<portfolio, loopVars, localStorage, provider>>

GetHeldShares(i, asOfDate) ==
    /\ pc = "idle"
    /\ i \in 1..Len(portfolio.grants)
    /\ pc' = "done"
    /\ call' = [fn |-> "getHeldShares", grant |-> portfolio.grants[i], asOfDate |-> asOfDate]
    /\ ret' = getHeldShares(portfolio.grants[i], portfolio.shareExchanges,
                            portfolio.stockSales, asOfDate)
    /\ UNCHANGED <<portfolio, loopVars, localStorage, provider>>

GetVestedTranches(i, asOfDate) ==
    /\ pc = "idle"
    /\ i \in 1..Len(portfolio.grants)
    /\ pc' = "done"
    /\ call' = [fn |-> "getVestedTranches", grant |-> portfolio.grants[i],
                asOfDate |-> asOfDate]
    /\ ret' = getVestedTranches(portfolio.grants[i], asOfDate)
    /\ UNCHANGED <<portfolio, loopVars, localStorage, provider>>

GetActiveLoans(asOfDate) ==
    /\ pc = "idle"
    /\ pc' = "done"
    /\ call' = [fn |-> "getActiveLoans", asOfDate |-> asOfDate]
    /\ ret' = getActiveLoans(portfolio.loans, asOfDate)
    /\ UNCHANGED <<portfolio, loopVars, localStorage, provider>>

CalculateAccruedInterest(i, asOfDate) ==
    /\ pc = "idle"
    /\ i \in 1..Len(portfolio.loans)
    /\ pc' = "done"
    /\ call' = [fn |-> "calculateAccruedInterest", loan |-> portfolio.loans[i],
                asOfDate |-> asOfDate]
    /\ ret' = calculateAccruedInterest(portfolio.loans[i], asOfDate)
    /\ UNCHANGED <<portfolio, loopVars, localStorage, provider>>

CalculateInterestForYear(i, y) ==
    /\ pc = "idle"
    /\ i \in 1..Len(portfolio.loans)
    /\ pc' = "done"
    /\ call' = [fn |-> "calculateInterestForYear", loan |-> portfolio.loans[i], year |-> y]
    /\ ret' = calculateInterestForYear(portfolio.loans[i], y)
    /\ UNCHANGED <<portfolio, loopVars, localStorage, provider>>

CalculateNetValue(asOfDate) ==
    /\ pc = "idle"
    /\ pc' = "done"
    /\ call' = [fn |-> "calculateNetValue", asOfDate |-> asOfDate]
    /\ ret' = calculateNetValue(portfolio, asOfDate)
    /\ UNCHANGED <<portfolio, loopVars, localStorage, provider>>

\* projectFutureValue up to the loop: the early return without a stock price,
\* else the initialisation of the loop
ProjectFutureValue(annualGrowthRate, fromYear, toYear) ==
    /\ pc = "idle"
    /\ call' = [fn |-> "projectFutureValue", annualGrowthRate |-> annualGrowthRate,
                fromYear |-> fromYear, toYear |-> toYear]
    /\ IF basePrice(portfolio) = null
       THEN /\ pc' = "done"
            /\ ret' = <<>>
            /\ UNCHANGED loopVars
       ELSE /\ pc' = "loop"
            /\ year' = fromYear
            /\ cumulativePlannedSaleShares' = R(0)
            /\ projections' = <<>>
            /\ UNCHANGED ret
    /\ UNCHANGED <<portfolio, localStorage, provider>>

\* one iteration of the loop of projectFutureValue
ProjectYear ==
    /\ pc = "loop"
    /\ year <= call.toYear
    /\ LET cumulative == PlannedSaleSharesAfter(cumulativePlannedSaleShares, portfolio,
                                                call.annualGrowthRate, year)
       IN  /\ cumulativePlannedSaleShares' = cumulative
           /\ projections' = Append(projections,
                                    YearProjection(portfolio, call.annualGrowthRate,
                                                   year, cumulative))
    /\ year' = year + 1
    /\ UNCHANGED <<portfolio, pc, call, ret, localStorage, provider>>

\* the loop left as soon as the last year is reached, before its projection
ProjectReturn_BeforeLastYear ==
    /\ pc = "loop"
    /\ year >= call.toYear
    /\ pc' = "done"
    /\ ret' = projections
    /\ UNCHANGED <<portfolio, call, loopVars, localStorage, provider>>

\* the end of the loop of projectFutureValue and its return
ProjectReturn ==
    /\ pc = "loop"
    /\ year > call.toYear
    /\ pc' = "done"
    /\ ret' = projections
    /\ UNCHANGED <<portfolio, call, loopVars, localStorage, provider>>

GetIncomeTaxableEvents(upToDate) ==
    /\ pc = "idle"
    /\ pc' = "done"
    /\ call' = [fn |-> "getIncomeTaxableEvents", upToDate |-> upToDate,
                treatment |-> "income"]
    /\ ret' = getIncomeTaxableEvents(portfolio, upToDate)
    /\ UNCHANGED <<portfolio, loopVars, localStorage, provider>>

GetCapGainsTaxableEvents(upToDate) ==
    /\ pc = "idle"
    /\ pc' = "done"
    /\ call' = [fn |-> "getCapGainsTaxableEvents", upToDate |-> upToDate,
                treatment |-> "capital_gains"]
    /\ ret' = getCapGainsTaxableEvents(portfolio, upToDate)
    /\ UNCHANGED <<portfolio, loopVars, localStorage, provider>>

GetInterestExpenseByYear(fromYear, toYear) ==
    /\ pc = "idle"
    /\ pc' = "done"
    /\ call' = [fn |-> "getInterestExpenseByYear", fromYear |-> fromYear, toYear |-> toYear]
    /\ ret' = getInterestExpenseByYear(portfolio.loans, fromYear, toYear)
    /\ UNCHANGED <<portfolio, loopVars, localStorage, provider>>

\* dispatch({ type: 'ADD_STOCK_PRICE', price })
AddStockPrice(price) ==
    /\ pc = "idle"
    /\ Len(portfolio.stockPrices) < MaxPrices
    /\ portfolio' = ADD_STOCK_PRICE(portfolio, price)
    /\ call' = [fn |-> "ADD_STOCK_PRICE", price |-> price]
    /\ UNCHANGED <<pc, ret, loopVars, localStorage, provider>>

\* dispatch({ type: 'UPDATE_STOCK_PRICE', oldDate, price })
UpdateStockPrice(oldDate, price) ==
    /\ pc = "idle"
    /\ portfolio' = UPDATE_STOCK_PRICE(portfolio, oldDate, price)
    /\ call' = [fn |-> "UPDATE_STOCK_PRICE", oldDate |-> oldDate, price |-> price]
    /\ UNCHANGED <<pc, ret, loopVars, localStorage, provider>>

\* dispatch({ type: 'DELETE_STOCK_PRICE', date })
DeleteStockPrice(date) ==
    /\ pc = "idle"
    /\ portfolio' = DELETE_STOCK_PRICE(portfolio, date)
    /\ call' = [fn |-> "DELETE_STOCK_PRICE", date |-> date]
    /\ UNCHANGED <<pc, ret, loopVars, localStorage, provider>>

\* StockPriceManager.handleAdd: an update when the date has an entry, else an add
HandleAdd(price) ==
    /\ pc = "idle"
    /\ IF \E i \in 1..Len(portfolio.stockPrices) : portfolio.stockPrices[i].date = price.date
       THEN portfolio' = UPDATE_STOCK_PRICE(portfolio, price.date, price)
       ELSE /\ Len(portfolio.stockPrices) < MaxPrices
            /\ portfolio' = ADD_STOCK_PRICE(portfolio, price)
    /\ call' = [fn |-> "handleAdd", price |-> price]
    /\ UNCHANGED <<pc, ret, loopVars, localStorage, provider>>

\* the import of a file: mergePortfolios(portfolio, result.portfolio), then
\* dispatch({ type: 'SET_PORTFOLIO', portfolio: merged })
MergeImport(incoming) ==
    /\ pc = "idle"
    /\ portfolio' = [portfolio EXCEPT !.stockPrices = mergedPrices(portfolio, incoming)]
    /\ call' = [fn |-> "mergePortfolios", incoming |-> incoming]
    /\ UNCHANGED <<pc, ret, loopVars, localStorage, provider>>

\* LocalStorageProvider.save(portfolio)
Save ==
    /\ pc = "idle"
    /\ localStorage' = save(portfolio)
    /\ call' = [fn |-> "save"]
    /\ UNCHANGED <<portfolio, pc, ret, loopVars, provider>>

\* LocalStorageProvider.load()
Load ==
    /\ pc = "idle"
    /\ ret' = load(localStorage)
    /\ call' = [fn |-> "load"]
    /\ UNCHANGED <<portfolio, pc, loopVars, localStorage, provider>>

\* LocalStorageProvider.clear()
Clear ==
    /\ pc = "idle"
    /\ localStorage' = null
    /\ call' = [fn |-> "clear"]
    /\ UNCHANGED <<portfolio, pc, ret, loopVars, provider>>

\* localStorage.setItem(key, text) by another writer of the key
SetItem(text) ==
    /\ pc = "idle"
    /\ localStorage' = text
    /\ call' = [fn |-> "setItem"]
    /\ UNCHANGED <<portfolio, pc, ret, loopVars, provider>>

\* exportPortfolioToJson(portfolio)
ExportPortfolioToJson ==
    /\ pc = "idle"
    /\ ret' = exportPortfolioToJson(portfolio)
    /\ call' = [fn |-> "exportPortfolioToJson"]
    /\ UNCHANGED <<portfolio, pc, loopVars, localStorage, provider>>

\* importPortfolioFromJson(json)
ImportPortfolioFromJson(json) ==
    /\ pc = "idle"
    /\ ret' = importPortfolioFromJson(json)
    /\ call' = [fn |-> "importPortfolioFromJson", json |-> json]
    /\ UNCHANGED <<portfolio, pc, loopVars, localStorage, provider>>

\* portfolioReducer(state, action), called on the portfolio
PortfolioReducer(action) ==
    /\ pc = "idle"
    /\ pc' = "done"
    /\ call' = [fn |-> "portfolioReducer", action |-> action]
    /\ ret' = portfolioReducer(portfolio, action)
    /\ UNCHANGED <<portfolio, loopVars, localStorage, provider>>

\* dispatch(action) by a component under the provider
Dispatch(action) ==
    /\ pc = "idle"
    /\ provider.loaded \in {"pending", "resolved"}
    /\ action.type = "ADD_STOCK_PRICE" => Len(portfolio.stockPrices) < MaxPrices
    /\ portfolio' = portfolioReducer(portfolio, action)
    /\ provider' = [provider EXCEPT !.effectPending = @ \/ ~SameObject(action)]
    /\ call' = [fn |-> "dispatch", action |-> action]
    /\ UNCHANGED <<pc, ret, loopVars, localStorage>>

\* storage.load().then((data) => { dispatch SET_PORTFOLIO; setLoading(false);
\* setInitialized(true) }): the three updates are rendered together
LoadResolves ==
    /\ pc = "idle"
    /\ provider.loaded = "pending"
    /\ LET data == load(localStorage)
       IN  /\ portfolio' = portfolioReducer(portfolio,
                                            [type |-> "SET_PORTFOLIO", portfolio |-> data])
           /\ call' = [fn |-> "storage.load", data |-> data]
    /\ provider' = ProviderState("resolved", TRUE, FALSE, TRUE)
    /\ UNCHANGED <<pc, ret, loopVars, localStorage>>

\* the effect of [portfolio, storage, initialized] that never looks at initialized
SaveEffect_Always ==
    /\ pc = "idle"
    /\ provider.effectPending
    /\ localStorage' = save(portfolio)
    /\ call' = [fn |-> "storage.save", portfolio |-> portfolio]
    /\ provider' = [provider EXCEPT !.effectPending = FALSE]
    /\ UNCHANGED <<portfolio, pc, ret, loopVars>>

\* the effect of [portfolio, storage, initialized], run after the render of a
\* change: if (initialized) storage.save(portfolio)
SaveEffect ==
    /\ pc = "idle"
    /\ provider.effectPending
    /\ IF provider.initialized
       THEN /\ localStorage' = save(portfolio)
            /\ call' = [fn |-> "storage.save", portfolio |-> portfolio]
       ELSE /\ UNCHANGED localStorage
            /\ call' = [fn |-> "effect"]
    /\ provider' = [provider EXCEPT !.effectPending = FALSE]
    /\ UNCHANGED <<portfolio, pc, ret, loopVars>>

InitCall ==
    /\ pc = "idle"
    /\ call = [fn |-> "none"]
    /\ ret = null
    /\ year = 0
    /\ cumulativePlannedSaleShares = R(0)
    /\ projections = <<>>
    /\ localStorage = null
    /\ provider = Unmounted

\* one loan and the two functions of a single loan
InitLoan ==
    /\ portfolio \in {[EmptyPortfolio EXCEPT !.loans = <<l>>] : l \in SingleLoans}
    /\ InitCall

NextLoan ==
    \/ \E d \in Dates : CalculateAccruedInterest(1, d)
    \/ \E y \in Years : CalculateInterestForYear(1, y)

SpecLoan == InitLoan /\ [][NextLoan]_vars

\* a list of loans and the filter on it
InitLoans ==
    /\ portfolio \in {[EmptyPortfolio EXCEPT !.loans = ls] : ls \in SeqsUpTo(ListLoans, MaxLoans)}
    /\ InitCall

NextLoans == \E d \in Dates : GetActiveLoans(d)

SpecLoans == InitLoans /\ [][NextLoans]_vars

\* a list of stock prices and the lookup in it
InitPrices ==
    /\ portfolio \in {[EmptyPortfolio EXCEPT !.stockPrices = ps] :
                        ps \in SeqsUpTo(PriceEntries, MaxPrices)}
    /\ InitCall

NextPrices == \E d \in Dates : GetStockPriceOnDate(d)

SpecPrices == InitPrices /\ [][NextPrices]_vars

\* two grants, at most MaxDeductions exchanges and sales, and the held shares
InitShares ==
    /\ \E es \in SeqsUpTo(ExchangeEntries, MaxDeductions) :
          \E ss \in SeqsUpTo(SaleEntries, MaxDeductions - Len(es)) :
              portfolio = [EmptyPortfolio EXCEPT !.grants = <<Grant1, Grant2>>,
                                                 !.shareExchanges = es, !.stockSales = ss]
    /\ InitCall

NextShares == \E i \in {1, 2}, d \in Dates : GetHeldShares(i, d)

SpecShares == InitShares /\ [][NextShares]_vars

\* one grant with any vesting schedule, exchanges and sales, and its vested tranches
InitVesting ==
    /\ portfolio \in
          [grants : {<<g>> : g \in VestingGrants},
           loans : {<<>>},
           stockPrices : {<<>>},
           programConfigs : {<<>>},
           shareExchanges : SubSeqs(CandidateExchanges),
           stockSales : SubSeqs(CandidateSales)]
    /\ InitCall

NextVesting == \E d \in Dates : GetVestedTranches(1, d)

SpecVesting == InitVesting /\ [][NextVesting]_vars

\* grants, stock prices, exchanges and sales, and the two taxable event reports
InitTax ==
    /\ portfolio \in
          [grants : TaxGrants,
           loans : {<<>>},
           stockPrices : SubSeqs(CandidatePrices),
           programConfigs : {<<>>},
           shareExchanges : SubSeqs(CandidateExchanges),
           stockSales : SubSeqs(CandidateSales)]
    /\ InitCall

NextTax ==
    \/ \E d \in Dates : GetIncomeTaxableEvents(d)
    \/ \E d \in Dates : GetCapGainsTaxableEvents(d)

SpecTax == InitTax /\ [][NextTax]_vars

\* a list of loans and its interest expense report
InitInterest ==
    /\ portfolio \in {[EmptyPortfolio EXCEPT !.loans = ls] : ls \in SubSeqs(InterestLoans)}
    /\ InitCall

NextInterest == \E fromYear \in Years, toYear \in Years : GetInterestExpenseByYear(fromYear, toYear)

SpecInterest == InitInterest /\ [][NextInterest]_vars

\* the stock prices of the store, from the empty portfolio, under the writes
InitStore ==
    /\ portfolio = EmptyPortfolio
    /\ InitCall

NextStore ==
    \/ \E price \in StoreEntries : AddStockPrice(price)
    \/ \E oldDate \in StoreDates, price \in StoreEntries : UpdateStockPrice(oldDate, price)
    \/ \E date \in StoreDates : DeleteStockPrice(date)
    \/ \E price \in StoreEntries : HandleAdd(price)
    \/ \E ps \in SeqsUpTo(StoreEntries, MaxPrices) :
          MergeImport([EmptyPortfolio EXCEPT !.stockPrices = ps])

SpecStore == InitStore /\ [][NextStore]_vars

\* a portfolio of file records, saved to and loaded from the storage provider
InitStorage ==
    /\ portfolio \in FilePortfolios
    /\ InitCall

NextStorage ==
    \/ Save
    \/ Load
    \/ Clear
    \/ \E text \in ForeignTexts : SetItem(text)

SpecStorage == InitStorage /\ [][NextStorage]_vars

\* a portfolio of file records exported, and the import of what was exported
\* or of a foreign text
InitImport ==
    /\ portfolio \in FilePortfolios
    /\ InitCall

NextImport ==
    \/ ExportPortfolioToJson
    \/ \E json \in ForeignTexts \cup {exportPortfolioToJson(portfolio)} :
          ImportPortfolioFromJson(json)

SpecImport == InitImport /\ [][NextImport]_vars

\* the import of any text: the file chosen by the user need not be an export
InitAnyImport ==
    /\ portfolio = createEmptyPortfolio
    /\ InitCall

NextAnyImport ==
    \E json \in ForeignTexts \cup HandWrittenTexts : ImportPortfolioFromJson(json)

SpecAnyImport == InitAnyImport /\ [][NextAnyImport]_vars

\* the actions dispatched under the provider: stock prices added and deleted,
\* everything cleared, an action the reducer does not know
ProviderActions ==
    {[type |-> "ADD_STOCK_PRICE", price |-> price] : price \in StoreEntries}
    \cup {[type |-> "DELETE_STOCK_PRICE", date |-> date] : date \in StoreDates}
    \cup {[type |-> "CLEAR_ALL"], [type |-> "NOOP"]}

\* what the key holds at the mount: nothing, a corrupt text, a saved portfolio
StoredItems ==
    {null, CorruptText}
    \cup {save([createEmptyPortfolio EXCEPT !.stockPrices = <<price>>]) :
             price \in StoreEntries}

\* the provider mounted over a storage, the load of the mount, the dispatches of
\* the components and the effect that saves; a render whose effect is due is
\* not left without its effect forever
InitProvider ==
    /\ portfolio = createEmptyPortfolio
    /\ pc = "idle"
    /\ call = [fn |-> "none"]
    /\ ret = null
    /\ year = 0
    /\ cumulativePlannedSaleShares = R(0)
    /\ projections = <<>>
    /\ localStorage \in StoredItems
    /\ provider = Mounted

NextProvider ==
    \/ \E action \in ProviderActions : Dispatch(action)
    \/ LoadResolves
    \/ SaveEffect

SpecProvider ==
    /\ InitProvider
    /\ [][NextProvider]_vars
    /\ ([]<>(~provider.effectPending) \/ []<><<SaveEffect>>_provider)
    /\ ([]<>(provider.loaded # "pending") \/ []<><<LoadResolves>>_provider)

\* the stock prices of the store, from the empty portfolio, under the three
\* reducer actions on stock prices
InitOrdered ==
    /\ portfolio = EmptyPortfolio
    /\ InitCall

NextOrdered ==
    \/ \E price \in OrderedEntries : AddStockPrice(price)
    \/ \E oldDate \in OrderedDates, price \in OrderedEntries :
          UpdateStockPrice(oldDate, price)
    \/ \E date \in OrderedDates : DeleteStockPrice(date)

SpecOrdered == InitOrdered /\ [][NextOrdered]_vars

\* the reducer as a function of a state and an action
InitReducer ==
    /\ portfolio \in ReducerStates
    /\ InitCall

NextReducer == \E action \in ReducerActions : PortfolioReducer(action)

SpecReducer == InitReducer /\ [][NextReducer]_vars

\* a whole portfolio of candidate records, its net value and its projection
Init ==
    /\ portfolio \in
          [grants : {<<>>, <<Grant1, Grant2>>},
           loans : SubSeqs(CandidateLoans),
           stockPrices : SubSeqs(CandidatePrices),
           programConfigs : {<<>>},
           shareExchanges : SubSeqs(CandidateExchanges),
           stockSales : SubSeqs(CandidateSales)]
    /\ InitCall

Next ==
    \/ \E d \in Dates : CalculateNetValue(d)
    \/ \E g \in GrowthRates, fromYear \in Years, toYear \in Years :
          ProjectFutureValue(g, fromYear, toYear)
    \/ ProjectYear
    \/ ProjectReturn

Spec == Init /\ [][Next]_vars

\* a call of projectFutureValue that runs on: the caller holds no projections
\* before the call, and once the loop is entered (the loop's steps are enabled
\* exactly when pc = "loop") its body and its exit are not postponed forever
InitRun ==
    /\ portfolio \in
          [grants : {<<>>, <<Grant1, Grant2>>},
           loans : SubSeqs(CandidateLoans),
           stockPrices : SubSeqs(CandidatePrices),
           programConfigs : {<<>>},
           shareExchanges : {<<>>},
           stockSales : SubSeqs(CandidateSales)]
    /\ pc = "idle"
    /\ call = [fn |-> "none"]
    /\ ret = <<>>
    /\ year = 0
    /\ cumulativePlannedSaleShares = R(0)
    /\ projections = <<>>
    /\ localStorage = null
    /\ provider = Unmounted

NextRun ==
    \/ \E g \in GrowthRates, fromYear \in Years, toYear \in Years :
          ProjectFutureValue(g, fromYear, toYear)
    \/ ProjectYear
    \/ ProjectReturn

SpecRun ==
    /\ InitRun
    /\ [][NextRun]_vars
    /\ ([]<>(pc # "loop") \/ []<><<ProjectYear \/ ProjectReturn>>_<<pc, year>>)

----------------------------------------------------------------------------
(* Helpers of the properties *)

\* the number of entries of xs equal to x
Count(xs, x) == Cardinality({i \in 1..Len(xs) : xs[i] = x})

\* the reorderings of xs
Reorderings(xs) ==
    {[i \in 1..Len(xs) |-> xs[f[i]]] :
        f \in {g \in [1..Len(xs) -> 1..Len(xs)] :
                 \A i, j \in 1..Len(xs) : g[i] = g[j] => i = j}}

\* the sum of f[i] over the indices i in S
RECURSIVE SumOver(_, _)
SumOver(f, S) ==
    IF S = {} THEN 0
    ELSE LET i == CHOOSE j \in S : TRUE IN f[i] + SumOver(f, S \ {i})

\* the sum of the numbers f[i] over the indices i in S
RECURSIVE SumNumOver(_, _)
SumNumOver(f, S) ==
    IF S = {} THEN R(0)
    ELSE LET i == CHOOSE j \in S : TRUE IN Add(f[i], SumNumOver(f, S \ {i}))

\* 366 in a leap year of the Gregorian calendar, 365 otherwise
GregorianDays(y) ==
    IF y % 400 = 0 THEN 366 ELSE IF y % 100 = 0 THEN 365 ELSE IF y % 4 = 0 THEN 366 ELSE 365

LaterOf(d1, d2) == IF isBefore(d1, d2) THEN d2 ELSE d1

EarlierOf(d1, d2) == IF isBefore(d1, d2) THEN d1 ELSE d2

\* principal x rate x days / yearDays as one fraction
InterestFraction(loan, days, yearDays) ==
    Norm(loan.principalAmount * loan.annualInterestRate.n * days,
         loan.annualInterestRate.d * yearDays)

----------------------------------------------------------------------------
(* C3 *)

\* C3: calculateAccruedInterest(loan, asOfDate) is 0 when asOfDate <= accrualStart
\* and otherwise principal x rate x daysBetween(accrualStart, asOfDate) divided
\* by the days of asOfDate's year (366 in a leap year, 365 otherwise), where
\* accrualStart is the later of originationDate and Jan 1 of asOfDate's year.
C3_AccruedInterest ==
    call.fn = "calculateAccruedInterest" =>
        LET loan == call.loan
            asOf == call.asOfDate
            accrualStart == LaterOf(loan.originationDate, <<asOf[1], 1, 1>>)
        IN  IF isOnOrBefore(asOf, accrualStart) THEN ret = R(0)
            ELSE ret = InterestFraction(loan, daysBetween(accrualStart, asOf),
                                        GregorianDays(asOf[1]))

\* a loan of an earlier year, asked on Jul 1 of a leap year: 182 days of 366
C3_Witness ==
    /\ call.fn = "calculateAccruedInterest"
    /\ isLeapYear(call.asOfDate[1])
    /\ call.asOfDate[2] = 7
    /\ call.loan.originationDate[1] < call.asOfDate[1]
    /\ call.loan.annualInterestRate = Norm(4, 100)
    /\ ret = Norm(1000 * 4 * 182, 100 * 366)

----------------------------------------------------------------------------
(* C4 *)

\* C4: calculateInterestForYear(loan, Y) is 0 when the loan is not active or Y
\* lies entirely outside [originationDate, maturityDate]; otherwise it is
\* principal x rate x daysBetween(max(originationDate, Y-01-01),
\* min(maturityDate, Y-12-31)) divided by the days of year Y (365 or 366).
C4_InterestForYear ==
    call.fn = "calculateInterestForYear" =>
        LET loan == call.loan
            Y == call.year
            outside == \/ isBefore(<<Y, 12, 31>>, loan.originationDate)
                       \/ isBefore(loan.maturityDate, <<Y, 1, 1>>)
        IN  IF loan.status # "active" \/ outside THEN ret = R(0)
            ELSE ret = InterestFraction(loan,
                           daysBetween(LaterOf(loan.originationDate, <<Y, 1, 1>>),
                                       EarlierOf(loan.maturityDate, <<Y, 12, 31>>)),
                           GregorianDays(Y))

\* an active loan that starts in the middle of a leap year and matures later
C4_Witness ==
    /\ call.fn = "calculateInterestForYear"
    /\ isLeapYear(call.year)
    /\ call.loan.status = "active"
    /\ call.loan.originationDate = <<call.year, 7, 1>>
    /\ call.loan.maturityDate[1] > call.year
    /\ call.loan.annualInterestRate = Norm(4, 100)
    /\ ret = Norm(1000 * 4 * 183, 100 * 366)

----------------------------------------------------------------------------
(* C5 *)

\* the condition of C5 on one loan
C5_InWindow(l, asOf) ==
    /\ l.status = "active"
    /\ isOnOrBefore(l.originationDate, asOf)
    /\ isOnOrBefore(asOf, l.maturityDate)

\* C5: getActiveLoans(loans, asOfDate) returns exactly the loans that are active
\* with originationDate <= asOfDate <= maturityDate: each of them as often as it
\* is listed, and no other loan.
C5_ActiveLoans ==
    call.fn = "getActiveLoans" =>
        /\ \A i \in 1..Len(ret) : C5_InWindow(ret[i], call.asOfDate)
        /\ \A i \in 1..Len(portfolio.loans) :
              C5_InWindow(portfolio.loans[i], call.asOfDate) =>
                  Count(ret, portfolio.loans[i]) = Count(portfolio.loans, portfolio.loans[i])

\* asked on the maturity date of the one loan returned, next to an active loan
\* that is past its maturity date and left out
C5_Witness ==
    /\ call.fn = "getActiveLoans"
    /\ Len(portfolio.loans) >= 2
    /\ Len(ret) = 1
    /\ ret[1].maturityDate = call.asOfDate
    /\ \E i \in 1..Len(portfolio.loans) :
          /\ portfolio.loans[i].status = "active"
          /\ isBefore(portfolio.loans[i].maturityDate, call.asOfDate)

----------------------------------------------------------------------------
(* C6 *)

\* the entries of prices on or before date, and those of them with the greatest date
C6_OnOrBefore(prices, date) == {i \in 1..Len(prices) : isOnOrBefore(prices[i].date, date)}

C6_Latest(prices, date) ==
    {i \in C6_OnOrBefore(prices, date) :
        \A j \in C6_OnOrBefore(prices, date) : isOnOrBefore(prices[j].date, prices[i].date)}

----------------------------------------------------------------------------
(* C2 *)

\* the shares of the tranches of grant vested on or before asOf
C2_Vested(grant, asOf) ==
    SumOver([i \in 1..Len(grant.vestingSchedule) |-> grant.vestingSchedule[i].numberOfShares],
            {i \in 1..Len(grant.vestingSchedule) :
                isOnOrBefore(grant.vestingSchedule[i].vestDate, asOf)})

\* the shares of the exchanges of the grant id on or before asOf
C2_Exchanged(exchanges, id, asOf) ==
    SumOver([i \in 1..Len(exchanges) |-> exchanges[i].sharesExchanged],
            {i \in 1..Len(exchanges) :
                exchanges[i].sourceGrantId = id /\ isOnOrBefore(exchanges[i].date, asOf)})

\* the shares of the sales of the grant id on or before asOf
C2_Sold(sales, id, asOf) ==
    SumOver([i \in 1..Len(sales) |-> sales[i].sharesSold],
            {i \in 1..Len(sales) :
                sales[i].sourceGrantId = id /\ isOnOrBefore(sales[i].date, asOf)})

\* C2: getHeldShares(grant, exchanges, sales, asOfDate) is
\* max(0, vested - exchanged - sold), with vested the tranches of
\* vestDate <= asOfDate and exchanged and sold the exchanges and sales of
\* sourceGrantId = grant.id and date <= asOfDate; so 0 <= heldShares <= vested,
\* also when exchanged + sold exceeds vested.
C2_HeldShares ==
    call.fn = "getHeldShares" =>
        LET vested == C2_Vested(call.grant, call.asOfDate)
            exchanged == C2_Exchanged(portfolio.shareExchanges, call.grant.id, call.asOfDate)
            sold == C2_Sold(portfolio.stockSales, call.grant.id, call.asOfDate)
        IN  /\ ret = IF vested - exchanged - sold > 0 THEN vested - exchanged - sold ELSE 0
            /\ 0 <= ret
            /\ ret <= vested

\* an exchange and a sale of the grant that together exceed its vested shares:
\* held shares are 0
C2_Witness ==
    /\ call.fn = "getHeldShares"
    /\ C2_Vested(call.grant, call.asOfDate) > 0
    /\ C2_Exchanged(portfolio.shareExchanges, call.grant.id, call.asOfDate) > 0
    /\ C2_Sold(portfolio.stockSales, call.grant.id, call.asOfDate) > 0
    /\ C2_Exchanged(portfolio.shareExchanges, call.grant.id, call.asOfDate)
         + C2_Sold(portfolio.stockSales, call.grant.id, call.asOfDate)
         > C2_Vested(call.grant, call.asOfDate)
    /\ ret = 0

----------------------------------------------------------------------------
(* C1 *)

\* the price calculateNetValue values shares at: 0 without a price on or before asOf
C1_Price(report, asOf) ==
    IF C6_OnOrBefore(portfolio.stockPrices, asOf) = {} THEN R(0) ELSE report.stockPrice

\* the accrued interest of C3 for one loan
C1_Accrued(loan, asOf) ==
    LET accrualStart == LaterOf(loan.originationDate, <<asOf[1], 1, 1>>)
    IN  IF isOnOrBefore(asOf, accrualStart) THEN R(0)
        ELSE InterestFraction(loan, daysBetween(accrualStart, asOf), GregorianDays(asOf[1]))

\* C1: calculateNetValue returns netValue = grossShareValue - totalLoanPrincipal
\* - totalAccruedInterest, with grossShareValue = totalHeldShares x price (price
\* 0 when no stock price is on or before asOfDate), totalHeldShares the sum of
\* the heldShares of byGrant, and totalLoanPrincipal and totalAccruedInterest
\* summed over exactly the loans getActiveLoans(loans, asOfDate) returns.
C1_NetValue ==
    call.fn = "calculateNetValue" =>
        LET asOf == call.asOfDate
            active == getActiveLoans(portfolio.loans, asOf)
        IN  /\ ret.netValue = Sub(Sub(ret.grossShareValue, R(ret.totalLoanPrincipal)),
                                  ret.totalAccruedInterest)
            /\ ret.grossShareValue = Mul(R(ret.totalHeldShares), C1_Price(ret, asOf))
            /\ C6_OnOrBefore(portfolio.stockPrices, asOf) = {} <=> ret.stockPrice = null
            /\ Len(ret.byGrant) = Len(portfolio.grants)
            /\ ret.totalHeldShares =
                  SumOver([i \in 1..Len(ret.byGrant) |-> ret.byGrant[i].heldShares],
                          1..Len(ret.byGrant))
            /\ ret.totalLoanPrincipal =
                  SumOver([i \in 1..Len(active) |-> active[i].principalAmount],
                          1..Len(active))
            /\ ret.totalAccruedInterest =
                  SumNumOver([i \in 1..Len(active) |-> C1_Accrued(active[i], asOf)],
                             1..Len(active))

\* both grants hold shares, a price is known, and one of two active loans is
\* inside its window with interest accrued
C1_Witness ==
    /\ call.fn = "calculateNetValue"
    /\ Len(ret.byGrant) = 2
    /\ ret.byGrant[1].heldShares > 0
    /\ ret.byGrant[2].heldShares > 0
    /\ ret.stockPrice = R(25)
    /\ Len(ret.byLoan) = 1
    /\ Cardinality({i \in 1..Len(portfolio.loans) : portfolio.loans[i].status = "active"}) >= 2
    /\ Lt(R(0), ret.totalAccruedInterest)
    /\ Lt(ret.netValue, ret.grossShareValue)

----------------------------------------------------------------------------
(* C7 *)

\* the indices of the loans with status active
C7_ActiveStatus == {i \in 1..Len(portfolio.loans) : portfolio.loans[i].status = "active"}

----------------------------------------------------------------------------
(* C8 *)

\* the number of events of a type in a YearProjection
EventCount(projection, type) ==
    Cardinality({k \in 1..Len(projection.events) : projection.events[k].type = type})

\* the indices of the loans with status active that mature in calendar year Y
C8_Maturing(Y) ==
    {k \in 1..Len(portfolio.loans) :
        portfolio.loans[k].status = "active" /\ portfolio.loans[k].maturityDate[1] = Y}

\* C8: in projectFutureValue the projection of every year Y has as many
\* loan_maturity events and as many planned_sale events as there are loans with
\* status active whose maturityDate is in calendar year Y, and when every active
\* loan matures in Y, loansOutstanding is 0 in every projected year after Y.
C8_MaturityEvents ==
    call.fn = "projectFutureValue" =>
        \A i \in 1..Len(projections) :
            LET Y == projections[i].year
            IN  /\ Y = call.fromYear + i - 1
                /\ EventCount(projections[i], "loan_maturity") = Cardinality(C8_Maturing(Y))
                /\ EventCount(projections[i], "planned_sale") = Cardinality(C8_Maturing(Y))
                /\ (C8_Maturing(Y) # {} /\ C7_ActiveStatus = C8_Maturing(Y)) =>
                      \A j \in 1..Len(projections) :
                          projections[j].year > Y => projections[j].loansOutstanding = 0

\* two active loans and a paid-off loan mature in the same year: two events of
\* each type in that year, nothing outstanding in the year after
C8_Witness ==
    /\ call.fn = "projectFutureValue"
    /\ pc = "done"
    /\ Len(ret) >= 2
    /\ \E k \in 1..Len(portfolio.loans) : portfolio.loans[k].status = "paid_off"
    /\ \E i \in 1..(Len(ret) - 1) :
          /\ EventCount(ret[i], "loan_maturity") = 2
          /\ EventCount(ret[i], "planned_sale") = 2
          /\ C7_ActiveStatus = C8_Maturing(ret[i].year)
          /\ ret[i + 1].loansOutstanding = 0

----------------------------------------------------------------------------
(* C9 *)

\* the sharesNeeded of the active loans maturing in the years fromYear .. Y
C9_PlannedThrough(Y) ==
    LET due == {k \in 1..Len(portfolio.loans) :
                   /\ portfolio.loans[k].status = "active"
                   /\ portfolio.loans[k].maturityDate[1] \in call.fromYear..Y}
    IN  SumNumOver([k \in 1..Len(portfolio.loans) |->
                       sharesNeeded(portfolio.loans[k],
                                    projectedPrice(portfolio, call.annualGrowthRate,
                                                   portfolio.loans[k].maturityDate[1]))],
                   due)

\* vested, exchanged and sold shares of the whole portfolio on Dec 31 of Y
C9_Vested(Y) ==
    SumOver([i \in 1..Len(portfolio.grants) |-> C2_Vested(portfolio.grants[i], <<Y, 12, 31>>)],
            1..Len(portfolio.grants))

C9_Exchanged(Y) ==
    SumOver([i \in 1..Len(portfolio.shareExchanges) |->
                portfolio.shareExchanges[i].sharesExchanged],
            {i \in 1..Len(portfolio.shareExchanges) :
                isOnOrBefore(portfolio.shareExchanges[i].date, <<Y, 12, 31>>)})

C9_Sold(Y) ==
    SumOver([i \in 1..Len(portfolio.stockSales) |-> portfolio.stockSales[i].sharesSold],
            {i \in 1..Len(portfolio.stockSales) :
                isOnOrBefore(portfolio.stockSales[i].date, <<Y, 12, 31>>)})

\* C9: in projectFutureValue heldShares of year Y is max(0, totalVested
\* - totalExchanged - totalSold - cumulativePlannedSaleShares), all as of Dec 31
\* of Y, where cumulativePlannedSaleShares is the sum of sharesNeeded of every
\* active loan maturing in the years fromYear .. Y; the running total never
\* decreases from one year to the next.
C9_HeldShares ==
    call.fn = "projectFutureValue" =>
        /\ pc = "loop" => cumulativePlannedSaleShares = C9_PlannedThrough(year - 1)
        /\ \A i \in 1..Len(projections) :
              LET Y == projections[i].year
              IN  /\ projections[i].heldShares =
                        MathMax(R(0),
                                Sub(R(C9_Vested(Y) - C9_Exchanged(Y) - C9_Sold(Y)),
                                    C9_PlannedThrough(Y)))
                  /\ Le(C9_PlannedThrough(Y - 1), C9_PlannedThrough(Y))

\* a sale planned in one year still reduces the positive holdings of the next
C9_Witness ==
    /\ call.fn = "projectFutureValue"
    /\ pc = "done"
    /\ \E i \in 1..(Len(ret) - 1) :
          /\ EventCount(ret[i], "planned_sale") > 0
          /\ EventCount(ret[i + 1], "planned_sale") = 0
          /\ Lt(R(0), ret[i + 1].heldShares)
          /\ Lt(R(0), C9_PlannedThrough(ret[i].year))
          /\ ret[i + 1].heldShares =
                Sub(R(C9_Vested(ret[i + 1].year) - C9_Exchanged(ret[i + 1].year)
                        - C9_Sold(ret[i + 1].year)),
                    C9_PlannedThrough(ret[i].year))

----------------------------------------------------------------------------
(* C10 *)

\* b to the power k as one fraction, for an integer k and b > 0
C10_Power(b, k) == IF k >= 0 THEN Norm(b.n ^ k, b.d ^ k) ELSE Norm(b.d ^ (-k), b.n ^ (-k))

\* the projected price of year Y indexed against the stock price entry k
C10_PriceFrom(k, Y) ==
    LET entry == portfolio.stockPrices[k]
        growth == Norm(call.annualGrowthRate.n + call.annualGrowthRate.d,
                       call.annualGrowthRate.d)
    IN  Mul(entry.pricePerShare, C10_Power(growth, Y - entry.date[1]))

\* x rounded to two decimals
C10_Round2(x) == Norm((200 * x.n + x.d) \div (2 * x.d), 100)

\* C10: in projectFutureValue the unrounded projected price of year Y is
\* basePrice x (1 + annualGrowthRate)^(Y - basePriceYear), with basePrice and
\* basePriceYear the price and the year of a stock price entry of the latest
\* date, also for the years before basePriceYear: it is the price whose
\* rounding is reported and at which the planned sales are valued.
C10_ProjectedPrice ==
    call.fn = "projectFutureValue" =>
        \/ /\ portfolio.stockPrices = <<>>
           /\ projections = <<>>
        \/ \E k \in C6_Latest(portfolio.stockPrices, <<9999, 12, 31>>) :
              \A i \in 1..Len(projections) :
                  LET price == C10_PriceFrom(k, projections[i].year)
                  IN  /\ projections[i].projectedStockPrice = C10_Round2(price)
                      /\ \A e \in 1..Len(projections[i].events) :
                            projections[i].events[e].type = "planned_sale" =>
                                projections[i].events[e].amount =
                                    Mul(projections[i].events[e].shares, price)

\* the latest price of 25 is of the second year; at 50 % growth the year before
\* is projected at 16.67 and the year after at 37.50, where a sale is planned
C10_Witness ==
    /\ call.fn = "projectFutureValue"
    /\ pc = "done"
    /\ call.annualGrowthRate = Norm(1, 2)
    /\ Len(portfolio.stockPrices) >= 2
    /\ Len(ret) = 3
    /\ ret[1].year < basePriceYear(portfolio)
    /\ ret[1].projectedStockPrice = Norm(1667, 100)
    /\ ret[2].projectedStockPrice = R(25)
    /\ ret[3].projectedStockPrice = Norm(375, 10)
    /\ EventCount(ret[3], "planned_sale") = 1

----------------------------------------------------------------------------
(* C11 *)

\* the projections returned cover the years fromYear .. toYear, one each and
\* in ascending order
C11_OnePerYear ==
    /\ Len(ret) = Max(0, call.toYear - call.fromYear + 1)
    /\ \A i \in 1..Len(ret) : ret[i].year = call.fromYear + i - 1

\* C11: projectFutureValue returns the empty sequence when the portfolio has no
\* stock price, for every growth rate and year range; with a stock price it
\* returns one projection for each year fromYear .. toYear in ascending order
\* (none when toYear < fromYear); and every call that has started returns.
C11_Terminates ==
    /\ [](call.fn = "projectFutureValue" /\ pc = "done" =>
            IF portfolio.stockPrices = <<>> THEN ret = <<>> ELSE C11_OnePerYear)
    /\ (call.fn = "projectFutureValue" ~> pc = "done")

\* a call with a stock price over all the model years has returned
C11_Witness ==
    /\ call.fn = "projectFutureValue"
    /\ pc = "done"
    /\ portfolio.stockPrices # <<>>
    /\ call.fromYear = FirstYear
    /\ call.toYear = FirstYear + YearSpan
    /\ Len(ret) = YearSpan + 1
    /\ ret[Len(ret)].year = call.toYear

----------------------------------------------------------------------------
(* C12 *)

\* the tax treatment a taxable events report is about
C12_Treatment ==
    IF call.fn = "getIncomeTaxableEvents" THEN "income" ELSE "capital_gains"

\* the tranches (grant index, tranche index) of the treatment that vest on or
\* before upToDate
C12_Tranches ==
    {t \in UNION {{<<i, j>> : j \in 1..Len(portfolio.grants[i].vestingSchedule)} :
                    i \in 1..Len(portfolio.grants)} :
        LET tranche == portfolio.grants[t[1]].vestingSchedule[t[2]]
        IN  /\ tranche.taxTreatment = C12_Treatment
            /\ parseDate(tranche.vestDate) <= parseDate(call.upToDate)}

\* the event e reports the tranche t
C12_Reports(e, t) ==
    LET grant == portfolio.grants[t[1]]
        tranche == grant.vestingSchedule[t[2]]
    IN  /\ e.date = tranche.vestDate
        /\ e.grantId = grant.id
        /\ e.shares = tranche.numberOfShares
        /\ e.taxTreatment = C12_Treatment

\* C12: getIncomeTaxableEvents and getCapGainsTaxableEvents return one event
\* for each tranche, of all the grants, whose taxTreatment is income and
\* capital_gains respectively and whose vestDate is on or before upToDate, and
\* no other event, by date ascending; the result is the one of the same
\* portfolio without its shareExchanges and stockSales.
C12_TaxableEvents ==
    call.fn \in {"getIncomeTaxableEvents", "getCapGainsTaxableEvents"} =>
        /\ Len(ret) = Cardinality(C12_Tranches)
        /\ \E f \in [1..Len(ret) -> C12_Tranches] :
              /\ \A k, l \in 1..Len(ret) : f[k] = f[l] => k = l
              /\ \A k \in 1..Len(ret) : C12_Reports(ret[k], f[k])
        /\ \A k \in 1..(Len(ret) - 1) : parseDate(ret[k].date) <= parseDate(ret[k + 1].date)
        /\ ret = getFilteredTaxableEvents(
                    [portfolio EXCEPT !.shareExchanges = <<>>, !.stockSales = <<>>],
                    call.upToDate, C12_Treatment)

\* the capital gains events of the grants in the order g2, g1 up to the day the
\* tranche of g2 vests: that tranche counts, the earlier one of g1 comes first,
\* and the portfolio has exchanges and sales
C12_Witness ==
    /\ call.fn = "getCapGainsTaxableEvents"
    /\ pc = "done"
    /\ portfolio.grants = <<Grant2, Grant1>>
    /\ portfolio.shareExchanges # <<>>
    /\ portfolio.stockSales # <<>>
    /\ Len(ret) = 2
    /\ ret[1].grantId = "g1"
    /\ ret[2].grantId = "g2"
    /\ ret[2].date = call.upToDate

----------------------------------------------------------------------------
(* C13 *)

\* the price recorded for a date: 0 without an entry on or before it, else the
\* price of the first entry in the list among those of the latest such date
C13_PriceAt(date) ==
    LET prices == portfolio.stockPrices
        latest == C6_Latest(prices, date)
    IN  IF latest = {} THEN R(0)
        ELSE prices[CHOOSE k \in latest : \A l \in latest : k <= l].pricePerShare

\* C13: every taxable event is valued at the stock price looked up as of its
\* own vest date (0 without a price on or before it): an income event has
\* totalValue = shares x priceAtVest, which is not negative, and a capital
\* gains event has totalValue = shares x (priceAtVest - pricePerShareAtGrant),
\* which is negative exactly when priceAtVest < pricePerShareAtGrant.
C13_EventValues ==
    call.fn \in {"getIncomeTaxableEvents", "getCapGainsTaxableEvents"} =>
        \A k \in 1..Len(ret) :
            LET e == ret[k]
                priceAtVest == C13_PriceAt(e.date)
                atGrant == (CHOOSE g \in {portfolio.grants[i] : i \in 1..Len(portfolio.grants)} :
                                g.id = e.grantId).pricePerShareAtGrant
            IN  /\ e.pricePerShare = priceAtVest
                /\ call.fn = "getIncomeTaxableEvents" =>
                      /\ e.totalValue = Norm(e.shares * priceAtVest.n, priceAtVest.d)
                      /\ e.totalValue.n >= 0
                /\ call.fn = "getCapGainsTaxableEvents" =>
                      /\ e.totalValue =
                            Norm(e.shares * (priceAtVest.n * atGrant.d - atGrant.n * priceAtVest.d),
                                 priceAtVest.d * atGrant.d)
                      /\ (e.totalValue.n < 0) <=>
                            (priceAtVest.n * atGrant.d < atGrant.n * priceAtVest.d)

\* capital gains events up to a date whose price is not the price at vest of
\* one of the events, one event with a loss and one without
C13_Witness ==
    /\ call.fn = "getCapGainsTaxableEvents"
    /\ pc = "done"
    /\ \E k \in 1..Len(ret) : ret[k].pricePerShare # C13_PriceAt(call.upToDate)
    /\ \E k \in 1..Len(ret) : ret[k].totalValue.n < 0
    /\ \E k \in 1..Len(ret) : ret[k].totalValue.n >= 0 /\ ret[k].pricePerShare.n > 0

----------------------------------------------------------------------------
(* C14 *)

\* the indices of the loans charged interest in year y
C14_Charged(y) ==
    {k \in 1..Len(portfolio.loans) :
        LET interest == calculateInterestForYear(portfolio.loans[k], y)
        IN  interest.n > 0 /\ interest.d > 0}

\* C14: getInterestExpenseByYear(loans, fromYear, toYear) returns one entry
\* for each year of the range in ascending order, each with deductibleInYear =
\* year + 1, totalInterest the sum of calculateInterestForYear(loan, year) over
\* all the loans, and a byLoan breakdown of exactly the loans whose interest
\* of the year is greater than 0.
C14_InterestExpense ==
    call.fn = "getInterestExpenseByYear" =>
        /\ Len(ret) = Max(0, call.toYear - call.fromYear + 1)
        /\ \A i \in 1..Len(ret) :
              LET y == call.fromYear + i - 1
                  loans == portfolio.loans
              IN  /\ ret[i].year = y
                  /\ ret[i].deductibleInYear = y + 1
                  /\ ret[i].totalInterest =
                        SumNumOver([k \in 1..Len(loans) |-> calculateInterestForYear(loans[k], y)],
                                   1..Len(loans))
                  /\ Len(ret[i].byLoan) = Cardinality(C14_Charged(y))
                  /\ {ret[i].byLoan[k].loanId : k \in 1..Len(ret[i].byLoan)} =
                        {loans[k].id : k \in C14_Charged(y)}
                  /\ \A k \in 1..Len(ret[i].byLoan) :
                        \E l \in C14_Charged(y) :
                            /\ ret[i].byLoan[k].loanId = loans[l].id
                            /\ ret[i].byLoan[k].interest = calculateInterestForYear(loans[l], y)

\* a report over all the model years of loans of which one is paid off and one
\* bears no interest: they are in no breakdown, and a loan is left out of the
\* year after its maturity
C14_Witness ==
    /\ call.fn = "getInterestExpenseByYear"
    /\ pc = "done"
    /\ Len(ret) = YearSpan + 1
    /\ Len(portfolio.loans) = Len(InterestLoans)
    /\ Len(ret[1].byLoan) = 2
    /\ Len(ret[Len(ret)].byLoan) < Len(ret[2].byLoan)
    /\ ret[1].totalInterest.n > 0

----------------------------------------------------------------------------
(* C15 *)

\* the total of the shares of the tranches
C15_Shares(tranches) ==
    SumOver([k \in 1..Len(tranches) |-> tranches[k].numberOfShares], 1..Len(tranches))

\* C15: vesting is monotonic in the date. The tranches getVestedTranches(grant,
\* d1) returns are those of the grant with vestDate on or before d1, the
\* vestDate itself included, whatever the exchanges and sales of the
\* portfolio, and for every date d2 >= d1 each is also returned by
\* getVestedTranches(grant, d2), so that neither the count nor the share total
\* decreases.
C15_VestingMonotonic ==
    call.fn = "getVestedTranches" =>
        LET schedule == call.grant.vestingSchedule
        IN  /\ \A j \in 1..Len(schedule) :
                  Count(ret, schedule[j]) =
                      IF parseDate(schedule[j].vestDate) <= parseDate(call.asOfDate)
                      THEN Count(schedule, schedule[j]) ELSE 0
            /\ \A d2 \in Dates :
                  parseDate(call.asOfDate) <= parseDate(d2) =>
                      LET later == getVestedTranches(call.grant, d2)
                      IN  /\ \A k \in 1..Len(ret) : Count(ret, ret[k]) <= Count(later, ret[k])
                          /\ Len(ret) <= Len(later)
                          /\ C15_Shares(ret) <= C15_Shares(later)

\* a grant with a tranche that vests on the date asked and one that vests
\* later, in a portfolio with an exchange and a sale
C15_Witness ==
    /\ call.fn = "getVestedTranches"
    /\ pc = "done"
    /\ portfolio.shareExchanges # <<>>
    /\ portfolio.stockSales # <<>>
    /\ Len(call.grant.vestingSchedule) = 2
    /\ Len(ret) = 1
    /\ ret[1].vestDate = call.asOfDate
    /\ Len(getVestedTranches(call.grant, Dec31(FirstYear + YearSpan))) = 2

----------------------------------------------------------------------------
(* C16 *)

\* the records whose sourceGrantId is the id of a grant of the portfolio
C16_Matched(records) ==
    SelectSeq(records, LAMBDA r :
        \E i \in 1..Len(portfolio.grants) : portfolio.grants[i].id = r.sourceGrantId)

\* the portfolio without the exchanges and sales of no grant
C16_WithoutDangling ==
    [portfolio EXCEPT !.shareExchanges = C16_Matched(portfolio.shareExchanges),
                      !.stockSales = C16_Matched(portfolio.stockSales)]

\* C16: a share exchange or stock sale whose sourceGrantId matches no grant of
\* the portfolio reduces no held-share figure: the heldShares of every grant
\* and totalHeldShares of calculateNetValue, and the heldShares of every year
\* of projectFutureValue, are those of the portfolio without such records.
C16_DanglingIgnored ==
    /\ (call.fn = "calculateNetValue" /\ pc = "done") =>
          LET without == calculateNetValue(C16_WithoutDangling, call.asOfDate)
          IN  /\ ret.totalHeldShares = without.totalHeldShares
              /\ \A i \in 1..Len(ret.byGrant) :
                    ret.byGrant[i].heldShares = without.byGrant[i].heldShares
    /\ call.fn = "projectFutureValue" =>
          \A i \in 1..Len(projections) :
              projections[i].heldShares =
                  YearProjection(C16_WithoutDangling, call.annualGrowthRate,
                                 projections[i].year,
                                 C9_PlannedThrough(projections[i].year)).heldShares

\* the part of C16 about calculateNetValue alone
C16_NetValueIgnoresDangling ==
    (call.fn = "calculateNetValue" /\ pc = "done") =>
        LET without == calculateNetValue(C16_WithoutDangling, call.asOfDate)
        IN  /\ ret.totalHeldShares = without.totalHeldShares
            /\ \A i \in 1..Len(ret.byGrant) :
                  ret.byGrant[i].heldShares = without.byGrant[i].heldShares

----------------------------------------------------------------------------
(* C17 *)

\* every number of a net value report is finite
C17_ReportNumbers(report) ==
    /\ report.stockPrice # null => IsFinite(report.stockPrice)
    /\ IsFinite(report.grossShareValue)
    /\ IsFinite(report.totalAccruedInterest)
    /\ IsFinite(report.netValue)
    /\ IsFinite(report.potentialNetValue)
    /\ \A i \in 1..Len(report.byGrant) : IsFinite(report.byGrant[i].shareValue)

\* every number of the projection of a year is finite
C17_ProjectionNumbers(projection) ==
    /\ IsFinite(projection.projectedStockPrice)
    /\ IsFinite(projection.heldShares)
    /\ IsFinite(projection.accruedInterest)
    /\ IsFinite(projection.grossValue)
    /\ IsFinite(projection.netValue)
    /\ \A e \in 1..Len(projection.events) :
          LET event == projection.events[e]
          IN  /\ event.type = "loan_maturity" => IsFinite(event.amount)
              /\ event.type = "planned_sale" =>
                    /\ IsFinite(event.shares)
                    /\ IsFinite(event.amount)
                    /\ IsFinite(event.taxImpact)

\* C17: the engine functions are total: for every portfolio and every date or
\* year range (missing prices, a stock price of 0, over-exchanged grants)
\* calculateNetValue and projectFutureValue return, and every numeric field of
\* what they return is a well-defined number, neither NaN nor infinite.
C17_WellDefinedNumbers ==
    /\ (call.fn = "calculateNetValue" /\ pc = "done") => C17_ReportNumbers(ret)
    /\ call.fn = "projectFutureValue" =>
          \A i \in 1..Len(projections) : C17_ProjectionNumbers(projections[i])

----------------------------------------------------------------------------
(* C18 *)

\* the entries of the store with the date
C18_EntriesOf(date) ==
    {i \in 1..Len(portfolio.stockPrices) : portfolio.stockPrices[i].date = date}

\* C18: the stockPrices of the portfolio are keyed by date: after every
\* sequence of ADD_STOCK_PRICE, UPDATE_STOCK_PRICE and mergePortfolios from the
\* empty portfolio there is at most one entry for a date, and after a write
\* of a price for a date the entry of that date carries the price written.
C18_KeyedByDate ==
    /\ \A date \in StoreDates : Cardinality(C18_EntriesOf(date)) <= 1
    /\ call.fn = "ADD_STOCK_PRICE" =>
          \A i \in C18_EntriesOf(call.price.date) :
              portfolio.stockPrices[i].pricePerShare = call.price.pricePerShare

----------------------------------------------------------------------------
(* C19 *)

\* the last call was load() and the item it read is the one save(portfolio) wrote
C19_LoadedAfterSave == call.fn = "load" /\ localStorage = save(portfolio)

\* the last call was load() and it read no item (nothing was saved, or clear()
\* removed it) or a text that is not JSON
C19_LoadedNothing ==
    call.fn = "load" /\ (localStorage = null \/ localStorage = CorruptText)

\* C19: save(p) followed by load() returns a portfolio equal to p, whatever its
\* six collections hold, and load() returns the empty portfolio when no item is
\* stored (nothing saved, or cleared) or when the stored text is corrupt.
C19_RoundTrip ==
    /\ C19_LoadedAfterSave => ret = portfolio
    /\ C19_LoadedNothing => ret = createEmptyPortfolio

\* what load() does return after save(p): the grants, loans and stock prices of
\* p and no other property; without an item or with a corrupt one, the empty
\* portfolio of six collections
C19_ThreeCollections ==
    /\ C19_LoadedAfterSave =>
          /\ DOMAIN ret = {"grants", "loans", "stockPrices"}
          /\ ret.grants = Map(portfolio.grants, JSONGrant)
          /\ ret.loans = Map(portfolio.loans, JSONLoan)
          /\ ret.stockPrices = Map(portfolio.stockPrices, JSONStockPrice)
    /\ C19_LoadedNothing => ret = createEmptyPortfolio

\* a portfolio with a share exchange and a stock sale was saved and loaded
C19_Witness ==
    /\ C19_LoadedAfterSave
    /\ portfolio.shareExchanges # <<>>
    /\ portfolio.stockSales # <<>>

----------------------------------------------------------------------------
(* C20 *)

\* every record of the six collections of p passes its validator
C20_Valid(p) ==
    /\ \A i \in 1..Len(p.grants) : validateGrant(p.grants[i]) = <<>>
    /\ \A i \in 1..Len(p.loans) : validateLoan(p.loans[i]) = <<>>
    /\ \A i \in 1..Len(p.stockPrices) : validateStockPrice(p.stockPrices[i]) = <<>>
    /\ \A i \in 1..Len(p.programConfigs) :
          validateProgramConfig(p.programConfigs[i]) = <<>>
    /\ \A i \in 1..Len(p.shareExchanges) :
          validateShareExchange(p.shareExchanges[i]) = <<>>
    /\ \A i \in 1..Len(p.stockSales) : validateStockSale(p.stockSales[i]) = <<>>

\* the last call was importPortfolioFromJson, of the text the export of the
\* portfolio wrote
C20_ImportedExport ==
    call.fn = "importPortfolioFromJson" /\ call.json = exportPortfolioToJson(portfolio)

\* the last call was importPortfolioFromJson, of a text that is a JSON object
C20_ImportedObject ==
    /\ call.fn = "importPortfolioFromJson"
    /\ JSONparse(call.json) # SyntaxError
    /\ JSONparse(call.json).kind = "object"

\* the number of warnings of a kind and an index among the warnings returned
C20_Warnings(kind, index) ==
    Cardinality({j \in 1..Len(ret.warnings) :
                    ret.warnings[j].kind = kind /\ ret.warnings[j].index = index})

\* the records of an array property of the text: those that fail the validator
\* have one warning each, of their kind and index, the others have none and are
\* the records returned, in their order
C20_Collection(name, kind, validate(_)) ==
    LET field == Property(JSONparse(call.json), name)
    IN  IsArray(field) =>
          /\ \A i \in 1..Len(field.items) :
                C20_Warnings(kind, i - 1) = IF validate(field.items[i]) = <<>> THEN 0 ELSE 1
          /\ ret.portfolio[name] = SelectSeq(field.items, LAMBDA r : validate(r) = <<>>)

\* the export of a portfolio of valid records imports as the same portfolio,
\* with success, without errors and without warnings
C20_RoundTrip ==
    (C20_ImportedExport /\ C20_Valid(portfolio)) =>
        /\ ret.success
        /\ ret.errors = <<>>
        /\ ret.warnings = <<>>
        /\ ret.portfolio = portfolio

\* a record that fails its validator is skipped with one warning of its kind
\* and index, the valid records are kept
C20_Skips ==
    C20_ImportedObject =>
        /\ C20_Collection("grants", "Grant", validateGrant)
        /\ C20_Collection("loans", "Loan", validateLoan)
        /\ C20_Collection("stockPrices", "Stock price", validateStockPrice)
        /\ C20_Collection("programConfigs", "Program config", validateProgramConfig)
        /\ C20_Collection("shareExchanges", "Share exchange", validateShareExchange)
        /\ C20_Collection("stockSales", "Stock sale", validateStockSale)

\* success is false exactly for a text that is not JSON or not a JSON object,
\* and the portfolio returned is then empty
C20_Failure ==
    call.fn = "importPortfolioFromJson" =>
        /\ ret.success = C20_ImportedObject
        /\ ~ret.success => ret.portfolio = createEmptyPortfolio

\* C20: importPortfolioFromJson(exportPortfolioToJson(p)) of a portfolio p whose
\* records all pass their validators returns success, no errors, no warnings
\* and a portfolio equal to p; a record that fails its validator is skipped with
\* exactly one warning of its kind and index while the valid records are kept;
\* success is false only for unparsable JSON or a top level that is not an
\* object, and the portfolio returned is then empty.
C20_ExportImport == C20_RoundTrip /\ C20_Skips /\ C20_Failure

\* what the round trip does provide: the portfolio comes back when its records
\* are valid and the export wrote every number of theirs as it is
C20_FiniteRoundTrip ==
    (/\ C20_ImportedExport
     /\ C20_Valid(portfolio)
     /\ Map(portfolio.grants, JSONGrant) = portfolio.grants
     /\ Map(portfolio.loans, JSONLoan) = portfolio.loans
     /\ Map(portfolio.stockPrices, JSONStockPrice) = portfolio.stockPrices
     /\ Map(portfolio.programConfigs, JSONProgramConfig) = portfolio.programConfigs
     /\ Map(portfolio.shareExchanges, JSONShareExchange) = portfolio.shareExchanges
     /\ Map(portfolio.stockSales, JSONStockSale) = portfolio.stockSales)
    => ret = ImportResult(TRUE, portfolio, <<>>, <<>>)

\* a portfolio of valid records, one of them with a number that is not finite,
\* was exported and imported
C20_Witness ==
    /\ C20_ImportedExport
    /\ C20_Valid(portfolio)
    /\ \E i \in 1..Len(portfolio.stockPrices) :
          ~IsFinite(portfolio.stockPrices[i].pricePerShare)

----------------------------------------------------------------------------
(* C21 *)

\* no storage.save before the load of the mount is resolved and applied: while
\* the load is pending the stored item is the one of the mount, and a call of
\* storage.save finds the load resolved and initialized set
C21_NoSaveBeforeLoad ==
    /\ provider.loaded = "pending" => localStorage \in StoredItems
    /\ call.fn = "storage.save" => provider.loaded = "resolved" /\ provider.initialized

\* the state the load resolved to is the state until a dispatch changes it
C21_LoadApplied == call.fn = "storage.load" => portfolio = call.data

\* C21: PortfolioProvider never calls storage.save before the initial
\* storage.load has resolved and its result is the state, and after that every
\* change of the portfolio is followed by a storage.save of the new state.
C21_SaveAfterLoad ==
    /\ [](C21_NoSaveBeforeLoad /\ C21_LoadApplied)
    /\ ((provider.initialized /\ provider.effectPending)
            ~> (~provider.effectPending /\ localStorage = save(portfolio)))

\* a dispatch before the load resolved, not saved, and a save after the load
C21_Witness ==
    /\ call.fn = "storage.save"
    /\ localStorage = save(portfolio)
    /\ portfolio.stockPrices # <<>>

----------------------------------------------------------------------------
(* C22 *)

\* the active loans of the portfolio that mature in year y, in their order
C22_Maturing(y) ==
    SelectSeq(portfolio.loans,
              LAMBDA l : l.status = "active" /\ l.maturityDate[1] = y)

\* principal x (1 + rate x days / 365) as one fraction
C22_Owed(l) ==
    LET days == parseDate(l.maturityDate) - parseDate(l.originationDate)
        rate == l.annualInterestRate
    IN  Norm(l.principalAmount * (365 * rate.d + rate.n * days), 365 * rate.d)

\* the events of a type among the events of a projected year
C22_Events(projection, type) == SelectSeq(projection.events, LAMBDA e : e.type = type)

\* C22: in projectFutureValue every active loan maturing in a projected year
\* has a loan_maturity event of principal x (1 + rate x days / 365), days being
\* daysBetween(originationDate, maturityDate), and a planned_sale event of
\* ceil(totalOwed / projectedPrice) shares at the unrounded price of the year.
C22_TotalOwed ==
    (pc = "done" /\ call.fn = "projectFutureValue") =>
        \A i \in 1..Len(ret) :
            LET loans == C22_Maturing(ret[i].year)
                maturities == C22_Events(ret[i], "loan_maturity")
                sales == C22_Events(ret[i], "planned_sale")
                price == projectedPrice(portfolio, call.annualGrowthRate, ret[i].year)
            IN  /\ Len(maturities) = Len(loans)
                /\ Len(sales) = Len(loans)
                /\ \A k \in 1..Len(loans) :
                      /\ maturities[k].amount = C22_Owed(loans[k])
                      /\ sales[k].shares = MathCeil(Div(C22_Owed(loans[k]), price))

\* a projection with a loan that matures in a leap year, where the days of the
\* year are not 365, and a planned sale at a price grown from the latest one
C22_Witness ==
    /\ pc = "done"
    /\ call.fn = "projectFutureValue"
    /\ \E i \in 1..Len(ret) :
          /\ isLeapYear(ret[i].year)
          /\ C22_Maturing(ret[i].year) # <<>>
          /\ C22_Owed(C22_Maturing(ret[i].year)[1])
                # totalOwed_DaysOfYear(C22_Maturing(ret[i].year)[1])
          /\ projectedPrice(portfolio, call.annualGrowthRate, ret[i].year)
                # basePrice(portfolio)

----------------------------------------------------------------------------
(* C23 *)

\* C23: from stock prices sorted ascending by date, every sequence of
\* ADD_STOCK_PRICE, UPDATE_STOCK_PRICE (one that changes the date of the entry
\* included) and DELETE_STOCK_PRICE leaves the stock prices sorted ascending
\* by date.
C23_SortedByDate ==
    \A i \in 1..Len(portfolio.stockPrices), j \in 1..Len(portfolio.stockPrices) :
        i < j => parseDate(portfolio.stockPrices[i].date)
                    <= parseDate(portfolio.stockPrices[j].date)

\* an update moved the first of two entries to a date after the other, and the
\* entry is now the second
C23_Witness ==
    /\ call.fn = "UPDATE_STOCK_PRICE"
    /\ Len(portfolio.stockPrices) = 2
    /\ portfolio.stockPrices[2] = call.price
    /\ parseDate(call.oldDate) < parseDate(portfolio.stockPrices[1].date)
    /\ parseDate(portfolio.stockPrices[1].date) < parseDate(call.price.date)

----------------------------------------------------------------------------
(* C24 *)

\* the active loans originated on or before the end of year y that mature in
\* a later year: those still owed at the end of y and not paid off by a sale
\* planned in y
C24_StillOwed(y) ==
    SelectSeq(portfolio.loans,
              LAMBDA l : /\ l.status = "active"
                         /\ parseDate(l.originationDate) <= parseDate(<<y, 12, 31>>)
                         /\ l.maturityDate[1] > y)

\* the sum of principal x rate over loans
C24_Interest(loans) ==
    SumNum([k \in 1..Len(loans) |->
               Norm(loans[k].principalAmount * loans[k].annualInterestRate.n,
                    loans[k].annualInterestRate.d)])

\* C24: no projected year counts a loan twice: a loan whose payoff sale is
\* planned in year Y (active, maturityDate in Y, December 31 included) is in
\* neither loansOutstanding nor accruedInterest of year Y, which hold the
\* loans still owed after Y only.
C24_NotCountedTwice ==
    (pc = "done" /\ call.fn = "projectFutureValue") =>
        \A i \in 1..Len(ret) :
            LET loans == C24_StillOwed(ret[i].year)
            IN  /\ ret[i].loansOutstanding
                      = SumInt([k \in 1..Len(loans) |-> loans[k].principalAmount])
                /\ ret[i].accruedInterest
                      = Div(MathRound(Mul(C24_Interest(loans), R(100))), R(100))

\* the same for the loans that do not mature on a December 31
C24_ExceptYearEnd ==
    (/\ pc = "done"
     /\ call.fn = "projectFutureValue"
     /\ \A k \in 1..Len(portfolio.loans) :
           portfolio.loans[k].status = "active"
              => <<portfolio.loans[k].maturityDate[2], portfolio.loans[k].maturityDate[3]>>
                    # <<12, 31>>)
    => C24_NotCountedTwice

----------------------------------------------------------------------------
(* C25 *)

\* cumulativePlannedSaleShares after year y of a loop that starts at fromYear
RECURSIVE C25_Cumulative(_, _, _, _)
C25_Cumulative(p, annualGrowthRate, fromYear, y) ==
    IF y < fromYear THEN R(0)
    ELSE PlannedSaleSharesAfter(C25_Cumulative(p, annualGrowthRate, fromYear, y - 1),
                                p, annualGrowthRate, y)

\* the projection of year y by a call that starts at fromYear
C25_Projection(p, annualGrowthRate, fromYear, y) ==
    YearProjection(p, annualGrowthRate, y,
                   C25_Cumulative(p, annualGrowthRate, fromYear, y))

\* the four numbers of a projection
C25_Numbers(projection) ==
    <<projection.heldShares, projection.loansOutstanding, projection.grossValue,
      projection.netValue>>

\* C25: the projection of a year does not depend on where the projection
\* starts: heldShares, loansOutstanding, grossValue and netValue of year Y
\* returned by a call from fromYear equal those of a call from any later year
\* up to Y.
C25_StartIndependent ==
    (pc = "done" /\ call.fn = "projectFutureValue") =>
        \A i \in 1..Len(ret) :
            \A f2 \in call.fromYear..ret[i].year :
                C25_Numbers(ret[i])
                    = C25_Numbers(C25_Projection(portfolio, call.annualGrowthRate,
                                                 f2, ret[i].year))

\* the same for portfolios without an active loan that matures from the first
\* start on
C25_WithoutMaturities ==
    (/\ pc = "done"
     /\ call.fn = "projectFutureValue"
     /\ \A k \in 1..Len(portfolio.loans) :
           portfolio.loans[k].status = "active"
              => portfolio.loans[k].maturityDate[1] \notin call.fromYear..call.toYear)
    => C25_StartIndependent

----------------------------------------------------------------------------
(* C26 *)

\* no active loan of the portfolio matures in a year from the start of the
\* projection through year y
C26_NoMaturity(y) ==
    \A k \in 1..Len(portfolio.loans) :
        portfolio.loans[k].status = "active"
           => portfolio.loans[k].maturityDate[1] \notin call.fromYear..y

\* C26: for a portfolio in which no active loan matures from fromYear through
\* Y, heldShares of year Y in projectFutureValue equals totalHeldShares of
\* calculateNetValue(portfolio, Y-12-31).
C26_HoldingsAgree ==
    (pc = "done" /\ call.fn = "projectFutureValue") =>
        \A i \in 1..Len(ret) :
            C26_NoMaturity(ret[i].year) =>
                ret[i].heldShares
                    = R(calculateNetValue(portfolio, <<ret[i].year, 12, 31>>).totalHeldShares)

\* the same for portfolios whose exchanges and sales all name a grant of the
\* portfolio and take no more of a grant than has vested
C26_WithinGrants ==
    (/\ pc = "done"
     /\ call.fn = "projectFutureValue"
     /\ \A k \in 1..Len(portfolio.shareExchanges) :
           \E g \in 1..Len(portfolio.grants) :
              portfolio.grants[g].id = portfolio.shareExchanges[k].sourceGrantId
     /\ \A k \in 1..Len(portfolio.stockSales) :
           \E g \in 1..Len(portfolio.grants) :
              portfolio.grants[g].id = portfolio.stockSales[k].sourceGrantId
     /\ \A i \in 1..Len(ret), g \in 1..Len(portfolio.grants) :
           VestedShares(portfolio.grants[g], <<ret[i].year, 12, 31>>)
              >= getExchangedShares(portfolio.shareExchanges, portfolio.grants[g].id,
                                    <<ret[i].year, 12, 31>>)
                 + getSoldShares(portfolio.stockSales, portfolio.grants[g].id,
                                 <<ret[i].year, 12, 31>>))
    => C26_HoldingsAgree

----------------------------------------------------------------------------
(* C27 *)

\* the day count calculateInterestForYear used for the loan in year y, read
\* off its result: interest = principal x rate x days / daysInYear
C27_Days(loan, y) ==
    Div(Mul(calculateInterestForYear(loan, y), R(daysInYear(y))),
        Mul(R(loan.principalAmount), loan.annualInterestRate))

RECURSIVE C27_DaysSum(_, _, _)
\* the day counts of the years fromYear through toYear, summed
C27_DaysSum(loan, fromYear, toYear) ==
    IF fromYear > toYear THEN R(0)
    ELSE Add(C27_Days(loan, fromYear), C27_DaysSum(loan, fromYear + 1, toYear))

\* the loan is open from January 1 through December 31 of year y
C27_SpansYear(loan, y) ==
    /\ isOnOrBefore(loan.originationDate, startOfYear(y))
    /\ isOnOrBefore(<<y, 12, 31>>, loan.maturityDate)

\* an active loan with interest: the case of the claim
C27_Charged ==
    /\ pc = "done"
    /\ call.fn = "calculateInterestForYear"
    /\ call.loan.status = "active"
    /\ call.loan.annualInterestRate # R(0)

\* C27: for an active loan, the day counts used by calculateInterestForYear
\* summed over every calendar year from the origination year through the
\* maturity year equal daysBetween(originationDate, maturityDate), and a loan
\* spanning a whole calendar year Y is charged the full principal x rate for Y.
C27_Additive ==
    C27_Charged =>
        /\ C27_DaysSum(call.loan, getYear(call.loan.originationDate),
                       getYear(call.loan.maturityDate))
             = R(daysBetween(call.loan.originationDate, call.loan.maturityDate))
        /\ C27_SpansYear(call.loan, call.year)
              => ret = Mul(R(call.loan.principalAmount), call.loan.annualInterestRate)

\* what the code does instead: one day is lost at every year end the loan
\* crosses, and a whole year is charged for daysInYear - 1 days
C27_OneDayPerYearEnd ==
    C27_Charged =>
        /\ C27_DaysSum(call.loan, getYear(call.loan.originationDate),
                       getYear(call.loan.maturityDate))
             = R(daysBetween(call.loan.originationDate, call.loan.maturityDate)
                   - (getYear(call.loan.maturityDate)
                        - getYear(call.loan.originationDate)))
        /\ C27_SpansYear(call.loan, call.year)
              => ret = Mul(Mul(R(call.loan.principalAmount), call.loan.annualInterestRate),
                           Norm(daysInYear(call.year) - 1, daysInYear(call.year)))

\* additivity holds for a loan that opens and matures in the same year
C27_WithinOneYear ==
    (C27_Charged
       /\ getYear(call.loan.originationDate) = getYear(call.loan.maturityDate))
    => C27_DaysSum(call.loan, getYear(call.loan.originationDate),
                   getYear(call.loan.maturityDate))
         = R(daysBetween(call.loan.originationDate, call.loan.maturityDate))

----------------------------------------------------------------------------
(* C28 *)

----------------------------------------------------------------------------
(* C29 *)

\* the items of the array of a name in the text of the call, none when the
\* text holds no such array
C29_Items(name) ==
    LET raw == JSONparse(call.json)
    IN  IF raw # SyntaxError /\ IsArray(Property(raw, name))
        THEN Property(raw, name).items ELSE <<>>

\* the kind the warnings of the collection of a name carry
C29_Kind(name) ==
    CASE name = "grants" -> "Grant"
      [] name = "loans" -> "Loan"
      [] name = "stockPrices" -> "Stock price"
      [] name = "programConfigs" -> "Program config"
      [] name = "shareExchanges" -> "Share exchange"
      [] name = "stockSales" -> "Stock sale"

\* the import returned an ImportResult in which every item that is null or not
\* an object is left out of its collection and has a warning of its index
C29_Skipped ==
    /\ DOMAIN ret = {"success", "portfolio", "warnings", "errors"}
    /\ \A name \in CollectionNames :
          \A i \in 1..Len(C29_Items(name)) :
              LET item == C29_Items(name)[i]
              IN  (item = null \/ IsPrimitive(item)) =>
                      /\ \A k \in 1..Len(ret.portfolio[name]) :
                            ret.portfolio[name][k] # item
                      /\ \E w \in 1..Len(ret.warnings) :
                            /\ ret.warnings[w].kind = C29_Kind(name)
                            /\ ret.warnings[w].index = i - 1

\* C29: importPortfolioFromJson never throws: for every input string, valid
\* JSON whose six arrays contain null or non-object elements included, it
\* returns an ImportResult in which the offending element is skipped with a
\* warning.
C29_NeverThrows ==
    call.fn = "importPortfolioFromJson" => C29_Skipped

\* the same for texts none of whose six arrays holds a null
C29_WithoutNull ==
    (/\ call.fn = "importPortfolioFromJson"
     /\ \A name \in CollectionNames :
           \A i \in 1..Len(C29_Items(name)) : C29_Items(name)[i] # null)
    => C29_Skipped

\* an import that skipped a number among the items of an array
C29_NumberSkipped ==
    /\ call.fn = "importPortfolioFromJson"
    /\ \E name \in CollectionNames :
          \E i \in 1..Len(C29_Items(name)) : IsPrimitive(C29_Items(name)[i])
    /\ C29_Skipped

----------------------------------------------------------------------------
(* C30 *)

\* the collection an action is about, "" for the actions of no one collection
C30_Own(type) ==
    CASE type \in {"ADD_GRANT", "UPDATE_GRANT", "DELETE_GRANT"} -> "grants"
      [] type \in {"ADD_LOAN", "UPDATE_LOAN", "DELETE_LOAN"} -> "loans"
      [] type \in {"ADD_STOCK_PRICE", "UPDATE_STOCK_PRICE", "DELETE_STOCK_PRICE"} ->
             "stockPrices"
      [] type \in {"ADD_PROGRAM_CONFIG", "UPDATE_PROGRAM_CONFIG", "DELETE_PROGRAM_CONFIG"} ->
             "programConfigs"
      [] type \in {"ADD_SHARE_EXCHANGE", "UPDATE_SHARE_EXCHANGE", "DELETE_SHARE_EXCHANGE"} ->
             "shareExchanges"
      [] type \in {"ADD_STOCK_SALE", "UPDATE_STOCK_SALE", "DELETE_STOCK_SALE"} ->
             "stockSales"
      [] OTHER -> ""

\* ADD, UPDATE or DELETE
C30_Verb(type) ==
    CASE type \in {"ADD_GRANT", "ADD_LOAN", "ADD_STOCK_PRICE", "ADD_PROGRAM_CONFIG",
                   "ADD_SHARE_EXCHANGE", "ADD_STOCK_SALE"} -> "ADD"
      [] type \in {"UPDATE_GRANT", "UPDATE_LOAN", "UPDATE_STOCK_PRICE",
                   "UPDATE_PROGRAM_CONFIG", "UPDATE_SHARE_EXCHANGE", "UPDATE_STOCK_SALE"} ->
             "UPDATE"
      [] type \in {"DELETE_GRANT", "DELETE_LOAN", "DELETE_STOCK_PRICE",
                   "DELETE_PROGRAM_CONFIG", "DELETE_SHARE_EXCHANGE", "DELETE_STOCK_SALE"} ->
             "DELETE"
      [] OTHER -> ""

\* the entry an ADD or an UPDATE carries
C30_Entry(action) ==
    CASE C30_Own(action.type) = "grants" -> action.grant
      [] C30_Own(action.type) = "loans" -> action.loan
      [] C30_Own(action.type) = "stockPrices" -> action.price
      [] C30_Own(action.type) = "programConfigs" -> action.config
      [] C30_Own(action.type) = "shareExchanges" -> action.exchange
      [] C30_Own(action.type) = "stockSales" -> action.sale

\* what an entry is matched by: its date for stock prices, its id otherwise
C30_KeyOf(name, entry) == IF name = "stockPrices" THEN entry.date ELSE entry.id

\* the id or the date an UPDATE or a DELETE names
C30_Key(action) ==
    CASE action.type = "UPDATE_STOCK_PRICE" -> action.oldDate
      [] C30_Verb(action.type) = "UPDATE" -> C30_Entry(action).id
      [] action.type = "DELETE_GRANT" -> action.grantId
      [] action.type = "DELETE_LOAN" -> action.loanId
      [] action.type = "DELETE_STOCK_PRICE" -> action.date
      [] action.type = "DELETE_PROGRAM_CONFIG" -> action.configId
      [] action.type = "DELETE_SHARE_EXCHANGE" -> action.exchangeId
      [] action.type = "DELETE_STOCK_SALE" -> action.saleId

\* the positions of the entries of the state the action names
C30_Matching(action) ==
    LET name == C30_Own(action.type)
    IN  {i \in 1..Len(portfolio[name]) :
            C30_KeyOf(name, portfolio[name][i]) = C30_Key(action)}

\* the call is of the reducer with an ADD, an UPDATE or a DELETE
C30_Called ==
    /\ pc = "done"
    /\ call.fn = "portfolioReducer"
    /\ C30_Own(call.action.type) # ""

\* the five other collections are the ones of the state
C30_OthersUnchanged ==
    \A name \in CollectionNames \ {C30_Own(call.action.type)} : ret[name] = portfolio[name]

\* the entry is added at the end and every entry of the state is where it was
C30_Appended(before, after, entry) ==
    /\ Len(after) = Len(before) + 1
    /\ \A i \in 1..Len(before) : after[i] = before[i]
    /\ after[Len(after)] = entry

\* the entries at the positions are replaced by the entry, every other entry is
\* where it was
C30_Replaced(before, after, positions, entry) ==
    /\ Len(after) = Len(before)
    /\ \A i \in 1..Len(before) :
          after[i] = IF i \in positions THEN entry ELSE before[i]

RECURSIVE C30_Without(_, _, _)
\* the entries of xs from position i on that are not at one of the positions
C30_Without(xs, positions, i) ==
    IF i > Len(xs) THEN <<>>
    ELSE (IF i \in positions THEN <<>> ELSE <<xs[i]>>) \o C30_Without(xs, positions, i + 1)

\* how often an entry is in a list
C30_Count(xs, x) == Cardinality({i \in 1..Len(xs) : xs[i] = x})

\* two lists hold the same entries, each as often
C30_SameEntries(xs, ys) ==
    /\ Len(xs) = Len(ys)
    /\ \A i \in 1..Len(xs) : C30_Count(xs, xs[i]) = C30_Count(ys, xs[i])

\* a list of stock prices in date order
C30_InDateOrder(xs) ==
    \A i \in 1..Len(xs), j \in 1..Len(xs) : i < j => isOnOrBefore(xs[i].date, xs[j].date)

\* what the claim says of the own collection of an action, for every collection
C30_OwnEntry ==
    LET action == call.action
        before == portfolio[C30_Own(action.type)]
        after == ret[C30_Own(action.type)]
    IN  CASE C30_Verb(action.type) = "ADD" ->
                 C30_Appended(before, after, C30_Entry(action))
          [] C30_Verb(action.type) = "UPDATE" ->
                 /\ C30_Replaced(before, after, C30_Matching(action), C30_Entry(action))
                 /\ C30_Matching(action) = {} => ret = portfolio
          [] C30_Verb(action.type) = "DELETE" ->
                 /\ after = C30_Without(before, C30_Matching(action), 1)
                 /\ C30_Matching(action) = {} => ret = portfolio

\* the same with the stock prices re-sorted after an ADD and an UPDATE: the
\* list holds the entries of the list appended to or replaced in, in date
\* order, the entries of one date in the order they had
C30_OwnEntrySorted ==
    LET action == call.action
        before == portfolio.stockPrices
        after == ret.stockPrices
    IN  IF action.type = "ADD_STOCK_PRICE"
        THEN /\ C30_SameEntries(after, Append(before, action.price))
             /\ C30_InDateOrder(after)
             /\ \E k \in 1..Len(after) :
                   /\ after[k] = action.price
                   /\ C30_Without(after, {k}, 1) = before
        ELSE IF action.type = "UPDATE_STOCK_PRICE"
        THEN /\ C30_SameEntries(after,
                                [i \in 1..Len(before) |->
                                    IF i \in C30_Matching(action) THEN action.price
                                    ELSE before[i]])
             /\ C30_InDateOrder(after)
             /\ C30_Without(after, {i \in 1..Len(after) : after[i] = action.price}, 1)
                   = C30_Without(before,
                                 C30_Matching(action)
                                     \cup {i \in 1..Len(before) : before[i] = action.price},
                                 1)
             /\ C30_Matching(action) = {} => ret = portfolio
        ELSE C30_OwnEntry

====
